---- MODULE Spec2Model ----
(***************************************************************************)
(* Multi-tier reaction prediction engine: canonical key builder, exact-    *)
(* match index (HybridReactionPredictor), rule-based fallback, the         *)
(* hierarchical router (HierarchicalReactionPredictor), the result cache   *)
(* (ResultCache, SmartCache) and the validation scorer                     *)
(* (ReactionValidator), under sequential and under concurrent callers.     *)
(*                                                                         *)
(* Strings are modelled as sequences of code points, so that Python's      *)
(* string ordering (sorted), ','.join and f-string concatenation are       *)
(* computed, not assumed.                                                  *)
(***************************************************************************)
EXTENDS Integers, Sequences, FiniteSets, TLC

VARIABLES
    fn, fnArgs, fnOut,                       \* pure-function harness: last function applied
    reaction_dict, total_reactions, unique_reactant_combos,   \* HybridReactionPredictor fields
    trained, prevDict, trainRaised, lastPredict,              \* history of train / predict calls
    hybrid_model, ml_model, gemini_predictor, stats,          \* HierarchicalReactionPredictor fields
    lastCall,                                                 \* what the last router call did
    now, cache_files, access_counts, cacheCall,               \* clock, cache directory, SmartCache counters, last cache call
    latest_set,                                               \* history: time and payload of each key's latest set
    validation_history, lastValidation,                       \* ReactionValidator field, last validate_prediction call
    pc, local, lock                                           \* concurrent callers: position, locals, holder of ResultCache.lock

vars == <<fn, fnArgs, fnOut, reaction_dict, total_reactions, unique_reactant_combos,
          trained, prevDict, trainRaised, lastPredict,
          hybrid_model, ml_model, gemini_predictor, stats, lastCall,
          now, cache_files, access_counts, cacheCall, latest_set,
          validation_history, lastValidation, pc, local, lock>>

pureVars == <<fn, fnArgs, fnOut>>
indexVars == <<reaction_dict, total_reactions, unique_reactant_combos,
               trained, prevDict, trainRaised, lastPredict>>
routerVars == <<hybrid_model, ml_model, gemini_predictor, stats, lastCall>>
cacheVars == <<now, cache_files, access_counts, cacheCall, latest_set>>
validatorVars == <<validation_history, lastValidation>>
threadVars == <<pc, local, lock>>

----------------------------------------------------------------------------
(* Bounds *)

MaxAtoms == 3        \* longest reactant list given to the pure functions
MaxReactions == 4    \* reactions trained into one index, over all train calls
MaxTrains == 2       \* train calls on one index
MaxTopK == 2         \* largest top_k asked of the exact-match index
MaxRouterAtoms == 3  \* longest reactant list given to the router
MaxCalls == 2        \* router calls
NumThreads == 2      \* concurrent callers of one router or one cache

----------------------------------------------------------------------------
(* Strings as code-point sequences *)

H  == <<72>>
He == <<72, 101>>
O  == <<79>>
Xe == <<88, 101>>

Elements == {H, He, O, Xe}

F_H2  == <<72, 50>>
F_H2O == <<72, 50, 79>>
F_OH  == <<79, 72>>
UNKNOWN == <<85, 78, 75, 78, 79, 87, 78>>

None == "None"

\* Python str.__lt__: lexicographic on code points, a proper prefix is smaller.
RECURSIVE StrLess(_, _)
StrLess(a, b) ==
    IF b = <<>> THEN FALSE
    ELSE IF a = <<>> THEN TRUE
    ELSE IF Head(a) # Head(b) THEN Head(a) < Head(b)
    ELSE StrLess(Tail(a), Tail(b))

\* str(n) for n >= 0
RECURSIVE Str(_)
Str(n) == IF n < 10 THEN <<48 + n>> ELSE Str(n \div 10) \o <<48 + (n % 10)>>

\* sorted(seq): stable, ascending by string order
RECURSIVE InsertSorted(_, _)
InsertSorted(s, x) ==
    IF s = <<>> THEN <<x>>
    ELSE IF StrLess(x, Head(s)) THEN <<x>> \o s
    ELSE <<Head(s)>> \o InsertSorted(Tail(s), x)

RECURSIVE sorted(_)
sorted(seq) ==
    IF seq = <<>> THEN <<>>
    ELSE InsertSorted(sorted(SubSeq(seq, 1, Len(seq) - 1)), seq[Len(seq)])

\* sep.join(seq)
RECURSIVE join(_, _)
join(sep, seq) ==
    IF seq = <<>> THEN <<>>
    ELSE IF Len(seq) = 1 THEN seq[1]
    ELSE seq[1] \o sep \o join(sep, Tail(seq))

Comma == <<44>>

\* collections.Counter(reactants)[e]
CountOf(reactants, e) == Cardinality({i \in DOMAIN reactants : reactants[i] = e})

\* set(reactants)
SetOf(reactants) == {reactants[i] : i \in DOMAIN reactants}

ListsUpTo(S, n) == UNION {[1..k -> S] : k \in 0..n}

ReactantLists == ListsUpTo(Elements, MaxAtoms)

----------------------------------------------------------------------------
(* Canonical key builder *)

normalize_reactants_unsorted(reactants) == join(Comma, reactants)

RECURSIVE Dedup(_)
Dedup(s) ==
    IF s = <<>> THEN <<>>
    ELSE IF \E i \in 2..Len(s) : s[i] = Head(s) THEN Dedup(Tail(s))
    ELSE <<Head(s)>> \o Dedup(Tail(s))

normalize_reactants_set(reactants) == join(Comma, sorted(Dedup(reactants)))

\* HybridReactionPredictor._normalize_reactants
normalize_reactants(reactants) == join(Comma, sorted(reactants))

Geometries == {None, "empty", "g1", "g2"}

\* hashlib.md5(...).hexdigest(): a deterministic digest of the key string,
\* taken to be collision-free.
md5(key_str) == <<"md5", key_str>>

get_cache_key_unsorted(elements, geometry) ==
    md5([elements |-> elements,
         geometry |-> IF geometry \in {None, "empty"} THEN None ELSE geometry])

\* ResultCache._get_cache_key; an empty geometry dict is falsy and is stored as None
get_cache_key(elements, geometry) ==
    md5([elements |-> sorted(elements),
         geometry |-> IF geometry \in {None, "empty"} THEN None ELSE geometry])

----------------------------------------------------------------------------
(* Rule-based fallback engine (Level 4) *)

Prob(n, d) == <<n, d>>       \* the float n/d, kept as written in the source

FallbackResult(formula, prob, conf, why) ==
    [products |-> <<[formula |-> formula, probability |-> prob]>>,
     confidence |-> conf,
     method |-> "level4_fallback",
     speed |-> "instant",
     reasoning |-> why]

\* f"{elems[0]}{counts[0] if counts[0]>1 else ''}{elems[1]}{counts[1] if counts[1]>1 else ''}"
BinaryFormula(reactants, a, b) ==
    a \o (IF CountOf(reactants, a) > 1 THEN Str(CountOf(reactants, a)) ELSE <<>>)
      \o b
      \o (IF CountOf(reactants, b) > 1 THEN Str(CountOf(reactants, b)) ELSE <<>>)

\* sorted(set(reactants), key=lambda e: elem_counts[e], reverse=True) for a set of
\* two elements: the stable sort keeps the set's iteration order on a tie, and the
\* iteration order of a set of strings depends on the interpreter's hash seed.
BinaryOrders(reactants) ==
    {<<a, b>> \in SetOf(reactants) \X SetOf(reactants) :
        a # b /\ CountOf(reactants, a) >= CountOf(reactants, b)}

fallback_prediction_anylen(reactants) ==
    IF Cardinality(SetOf(reactants)) = 1
    THEN {FallbackResult(reactants[1] \o <<50>>, Prob(8, 10), 80, "Diatomic molecule rule")}
    ELSE IF Cardinality(SetOf(reactants)) = 2
    THEN {FallbackResult(BinaryFormula(reactants, o[1], o[2]), Prob(6, 10), 60,
                         "Binary compound rule") : o \in BinaryOrders(reactants)}
    ELSE {FallbackResult(UNKNOWN, Prob(0, 1), 0, "No applicable chemical rules found")}

\* HierarchicalReactionPredictor._fallback_prediction: the set of results the call
\* can return (one, except on a tie of the binary rule)
fallback_prediction(reactants) ==
    IF Cardinality(SetOf(reactants)) = 1 /\ Len(reactants) = 2
    THEN {FallbackResult(reactants[1] \o <<50>>, Prob(8, 10), 80, "Diatomic molecule rule")}
    ELSE IF Cardinality(SetOf(reactants)) = 2
    THEN {FallbackResult(BinaryFormula(reactants, o[1], o[2]), Prob(6, 10), 60,
                         "Binary compound rule") : o \in BinaryOrders(reactants)}
    ELSE {FallbackResult(UNKNOWN, Prob(0, 1), 0, "No applicable chemical rules found")}

----------------------------------------------------------------------------
(* Exact-match index (Level 1): HybridReactionPredictor *)

\* {} : no key
EmptyDict == [k \in {} |-> <<>>]

\* A Counter is kept as the sequence of its (product, count) items in insertion order.
CounterGet(table, product) ==
    IF \E i \in DOMAIN table : table[i].product = product
    THEN (CHOOSE i \in DOMAIN table : table[i].product = product)
    ELSE 0

\* counter[product] += 1
CounterInc(table, product) ==
    IF CounterGet(table, product) = 0
    THEN Append(table, [product |-> product, count |-> 1])
    ELSE [table EXCEPT ![CounterGet(table, product)].count = @ + 1]

\* sum(counter.values())
RECURSIVE CounterTotal(_)
CounterTotal(table) ==
    IF table = <<>> THEN 0 ELSE Head(table).count + CounterTotal(Tail(table))

\* the loop body of train with the counter reset for every reaction
TrainOneOverwrite(d, reaction) ==
    LET key == normalize_reactants(reaction.reactants)
    IN  [k \in DOMAIN d \cup {key} |->
            IF k = key THEN <<[product |-> reaction.products[1], count |-> 1]>> ELSE d[k]]

\* the loop body of train with the key taken from the reactants as given
TrainOneRawKey(d, reaction) ==
    LET key == join(Comma, reaction.reactants)
        product == reaction.products[1]
        table == IF key \in DOMAIN d THEN d[key] ELSE <<>>
    IN  [k \in DOMAIN d \cup {key} |-> IF k = key THEN CounterInc(table, product) ELSE d[k]]

\* the loop body of HybridReactionPredictor.train
TrainOne(d, reaction) ==
    LET key == normalize_reactants(reaction.reactants)
        product == reaction.products[1]
        table == IF key \in DOMAIN d THEN d[key] ELSE <<>>
    IN  [k \in DOMAIN d \cup {key} |-> IF k = key THEN CounterInc(table, product) ELSE d[k]]

RECURSIVE TrainAll(_, _)
TrainAll(d, reactions) ==
    IF reactions = <<>> THEN d
    ELSE TrainAll(TrainOne(d, Head(reactions)), Tail(reactions))

\* an insertion that puts a later item before the earlier items of equal count
RECURSIVE InsertByCountUnstable(_, _)
InsertByCountUnstable(s, item) ==
    IF s = <<>> THEN <<item>>
    ELSE IF item.count >= Head(s).count THEN <<item>> \o s
    ELSE <<Head(s)>> \o InsertByCountUnstable(Tail(s), item)

\* Counter.most_common(n): the n largest counts, equal counts in insertion order
RECURSIVE InsertByCount(_, _)
InsertByCount(s, item) ==
    IF s = <<>> THEN <<item>>
    ELSE IF item.count > Head(s).count THEN <<item>> \o s
    ELSE <<Head(s)>> \o InsertByCount(Tail(s), item)

RECURSIVE SortByCount(_)
SortByCount(table) ==
    IF table = <<>> THEN <<>>
    ELSE InsertByCount(SortByCount(SubSeq(table, 1, Len(table) - 1)), table[Len(table)])

most_common(table, n) ==
    SubSeq(SortByCount(table), 1, IF n < Len(table) THEN n ELSE Len(table))

RECURSIVE Gcd(_, _)
Gcd(a, b) == IF b = 0 THEN a ELSE Gcd(b, a % b)

\* the float count / total_count, kept as the fraction in lowest terms
Div(n, d) == <<n \div Gcd(n, d), d \div Gcd(n, d)>>

Confidences(items, total) ==
    [i \in DOMAIN items |-> [product |-> items[i].product, confidence |-> Div(items[i].count, total)]]

\* predict with the confidence taken over the returned candidates only
hybrid_predict_topk_total(d, reactants, top_k) ==
    LET key == normalize_reactants(reactants)
    IN  IF key \in DOMAIN d
        THEN Confidences(most_common(d[key], top_k), CounterTotal(most_common(d[key], top_k)))
        ELSE <<[product |-> UNKNOWN, confidence |-> <<0, 1>>]>>

\* HybridReactionPredictor.predict
hybrid_predict(d, reactants, top_k) ==
    LET key == normalize_reactants(reactants)
    IN  IF key \in DOMAIN d
        THEN Confidences(most_common(d[key], top_k), CounterTotal(d[key]))
        ELSE <<[product |-> UNKNOWN, confidence |-> <<0, 1>>]>>

\* HybridReactionPredictor.predict_with_fallback
predict_with_fallback(d, reactants, top_k) ==
    LET key == normalize_reactants(reactants)
    IN  IF key \in DOMAIN d
        THEN [predictions |-> hybrid_predict(d, reactants, top_k),
              method |-> "exact_match",
              confidence |-> "high",
              training_examples |-> CounterTotal(d[key])]
        ELSE [predictions |-> <<[product |-> UNKNOWN, confidence |-> <<0, 1>>]>>,
              method |-> "no_match",
              confidence |-> "low",
              training_examples |-> 0]

\* Training corpus entries ({reactants, products}); train reads products[0]
Reactions ==
    {[reactants |-> <<H, H, O>>, products |-> <<F_H2O>>],
     [reactants |-> <<O, H, H>>, products |-> <<F_OH, H>>],
     [reactants |-> <<H, H>>,    products |-> <<F_H2>>]}

Corpora == ListsUpTo(Reactions, MaxReactions)

QueryLists == {<<O, H, H>>, <<H, H>>, <<H>>}

\* the reactions of a sequence of corpora, in order
RECURSIVE Flatten(_)
Flatten(corpora) == IF corpora = <<>> THEN <<>> ELSE Head(corpora) \o Flatten(Tail(corpora))

NoPredict == [op |-> "none", reactants |-> <<>>, top_k |-> 0, out |-> <<>>]

----------------------------------------------------------------------------
(* External reasoning service: GeminiReactionPredictor *)

\* A response text is a sequence of tokens: "{" and "}", "fields" (well-formed JSON
\* members), "junk" (anything that is not JSON), and the markdown fences
\* "fencejson" (```json) and "fence" (```).
Responses ==
    {<<"fencejson", "{", "fields", "}", "fence">>,
     <<"{", "}">>,
     <<"junk">>,
     <<"junk", "}", "{">>,
     <<"{", "junk", "}">>}

\* response_text.replace('```json', '').replace('```', '')
RECURSIVE StripFences(_)
StripFences(text) ==
    IF text = <<>> THEN <<>>
    ELSE IF Head(text) \in {"fencejson", "fence"} THEN StripFences(Tail(text))
    ELSE <<Head(text)>> \o StripFences(Tail(text))

\* str.find / str.rfind, 0-based, -1 when absent
Find(text, tok) ==
    IF \E i \in DOMAIN text : text[i] = tok
    THEN (CHOOSE i \in DOMAIN text : text[i] = tok /\ \A j \in 1..(i - 1) : text[j] # tok) - 1
    ELSE -1

RFind(text, tok) ==
    IF \E i \in DOMAIN text : text[i] = tok
    THEN (CHOOSE i \in DOMAIN text : text[i] = tok /\ \A j \in (i + 1)..Len(text) : text[j] # tok) - 1
    ELSE -1

\* json.loads succeeds on an object with well-formed members (or none)
JsonLoadsOk(json_str) == json_str \in {<<"{", "}">>, <<"{", "fields", "}">>}

GeminiProducts == <<[formula |-> F_H2O, probability |-> Prob(85, 100)]>>

\* GeminiReactionPredictor._parse_response: never raises; "kind" names the branch taken
parse_response(response_text) ==
    LET cleaned == StripFences(response_text)
        start_idx == Find(cleaned, "{")
        end_idx == RFind(cleaned, "}") + 1
        json_str == SubSeq(cleaned, start_idx + 1, end_idx)
    IN  IF start_idx # -1 /\ end_idx > start_idx
        THEN IF JsonLoadsOk(json_str)
             THEN IF json_str = <<"{", "fields", "}">>
                  THEN [kind |-> "parsed", products |-> GeminiProducts, confidence |-> 85,
                        reasoning |-> "model reasoning", mechanism |-> "model mechanism"]
                  ELSE [kind |-> "parsed", products |-> <<[bare |-> "Unknown"]>>, confidence |-> 0,
                        reasoning |-> "Not provided", mechanism |-> "Not provided"]
             ELSE [kind |-> "decode_error", products |-> <<[bare |-> "Parsing Error"]>>,
                   confidence |-> 0, reasoning |-> "Failed to parse AI response as JSON",
                   mechanism |-> "raw response"]
        ELSE [kind |-> "no_json", products |-> <<[bare |-> "Unknown"]>>, confidence |-> 0,
              reasoning |-> "Could not parse structured response", mechanism |-> "raw response"]

\* What the service does on one generate_content call: raise, or answer with a text
ServiceOutcomes ==
    {[raises |-> TRUE, text |-> <<>>]} \cup {[raises |-> FALSE, text |-> t] : t \in Responses}

\* What constructing the client (imports, configure, GenerativeModel) does
CtorOutcomes == {"ok", "raise"}

----------------------------------------------------------------------------
(* Feature-fingerprint classifier (Level 2): TraditionalMLPredictor *)

MlModels == {"absent", "untrained", "trained"}

\* 100 * max class probability reported by the trained forest
MLConfidences == {70, 71}

\* TraditionalMLPredictor.predict: the results the call can have. An untrained
\* predictor answers confidence 0; _create_reaction_fingerprint takes
\* max(elem_counts.values()), which raises ValueError on an empty reactant list.
ml_predict(model, reactants) ==
    IF model = "untrained"
    THEN {[raised |-> FALSE, products |-> <<>>, confidence |-> 0]}
    ELSE IF reactants = <<>>
    THEN {[raised |-> TRUE, products |-> <<>>, confidence |-> 0]}
    ELSE {[raised |-> FALSE,
           products |-> <<[formula |-> F_H2O, probability |-> Prob(c, 100)]>>,
           confidence |-> c] : c \in MLConfidences}

----------------------------------------------------------------------------
(* Hierarchical router: HierarchicalReactionPredictor.predict *)

ZeroStats == [level1_hits |-> 0, level2_hits |-> 0, level3_hits |-> 0, level4_hits |-> 0,
              total_predictions |-> 0]

NoResult == [products |-> <<>>, confidence |-> 0, method |-> "none", speed |-> "none",
             reasoning |-> "none"]

\* what one predict call did: the tiers consulted, the exception or the result,
\* what Level 3 did about its client, the stats before the call, and (set by the
\* caller of router_predict) what the classifier answered
NoMlResult == [raised |-> FALSE, products |-> <<>>, confidence |-> 0]

NoCall == [reactants |-> <<>>, trace |-> <<>>, raised |-> FALSE, l3 |-> "none",
           client |-> "none", result |-> NoResult, before |-> ZeroStats,
           ml_result |-> NoMlResult]

Level1AcceptsCertain(hm, d, reactants) ==
    /\ hm
    /\ predict_with_fallback(d, reactants, 3).method = "exact_match"
    /\ predict_with_fallback(d, reactants, 3).predictions[1].confidence = <<1, 1>>

\* predict, lines 79-82: the Level 1 test
Level1Accepts(hm, d, reactants) ==
    hm /\ predict_with_fallback(d, reactants, 3).method = "exact_match"

Level1Result(d, reactants) ==
    LET result == predict_with_fallback(d, reactants, 3)
    IN  [products |-> [i \in DOMAIN result.predictions |->
                          [formula |-> result.predictions[i].product,
                           probability |-> result.predictions[i].confidence]],
         confidence |-> 100,
         method |-> "level1_hybrid",
         speed |-> "instant",
         reasoning |-> "Known reaction",
         training_examples |-> result.training_examples]

Level2AcceptsAtLeast(confidence) == confidence >= 70

\* predict, line 98: the Level 2 threshold
Level2Accepts(confidence) == confidence > 70

Level2Result(ml_result) ==
    [products |-> ml_result.products,
     confidence |-> ml_result.confidence,
     method |-> "level2_ml",
     speed |-> "fast",
     reasoning |-> "ML pattern matching"]

Level3Result(gemini_result) ==
    [products |-> gemini_result.products,
     confidence |-> gemini_result.confidence,
     method |-> "level3_gemini",
     speed |-> "slow",
     reasoning |-> gemini_result.reasoning,
     mechanism |-> gemini_result.mechanism]

Level3CaughtCallOnly(failure) == failure = "call_raised"

\* predict, lines 109-139: the try block holds the client construction and the
\* call, and except Exception catches a failure of either
Level3Caught(failure) == failure \in {"ctor_raised", "call_raised"}

Bump(st, counter) == [st EXCEPT ![counter] = @ + 1]

NeedsClientAlways(gp) == TRUE

\* predict, line 111: `if not self.gemini_predictor`
NeedsClient(gp) == ~gp

\* Levels 3 and 4 of predict, entered with the total already counted.
\* ctor is consulted only when no client exists yet.
Level3And4(st, gp, reactants, trace, ctor, service, fb) ==
    LET failure == IF NeedsClient(gp) /\ ctor = "raise" THEN "ctor_raised"
                   ELSE IF service.raises THEN "call_raised"
                   ELSE "none"
        gp1 == gp \/ (NeedsClient(gp) /\ ctor = "ok")
        client == IF ~NeedsClient(gp) THEN "reused"
                  ELSE IF ctor = "raise" THEN "ctor_raised" ELSE "constructed"
    IN  IF failure = "none"
        THEN [stats |-> Bump(st, "level3_hits"), gemini_predictor |-> gp1,
              call |-> [reactants |-> reactants, trace |-> Append(trace, "L3"),
                        raised |-> FALSE, l3 |-> parse_response(service.text).kind,
                        client |-> client, before |-> st,
                        result |-> Level3Result(parse_response(service.text))]]
        ELSE IF Level3Caught(failure)
        THEN [stats |-> Bump(st, "level4_hits"), gemini_predictor |-> gp1,
              call |-> [reactants |-> reactants, trace |-> trace \o <<"L3", "L4">>,
                        raised |-> FALSE, l3 |-> failure, client |-> client, before |-> st,
                        result |-> fb]]
        ELSE [stats |-> st, gemini_predictor |-> gp1,
              call |-> [reactants |-> reactants, trace |-> Append(trace, "L3"),
                        raised |-> TRUE, l3 |-> failure, client |-> client, before |-> st,
                        result |-> NoResult]]

\* Levels 2 to 4 of predict
Level2To4(st, ml, gp, reactants, trace, ml_result, ctor, service, fb) ==
    IF ml = "absent"
    THEN Level3And4(st, gp, reactants, trace, ctor, service, fb)
    ELSE IF ml_result.raised
    THEN [stats |-> st, gemini_predictor |-> gp,
          call |-> [reactants |-> reactants, trace |-> Append(trace, "L2"),
                    raised |-> TRUE, l3 |-> "none", client |-> "none", before |-> st,
                    result |-> NoResult]]
    ELSE IF Level2Accepts(ml_result.confidence)
    THEN [stats |-> Bump(st, "level2_hits"), gemini_predictor |-> gp,
          call |-> [reactants |-> reactants, trace |-> Append(trace, "L2"),
                    raised |-> FALSE, l3 |-> "none", client |-> "none", before |-> st,
                    result |-> Level2Result(ml_result)]]
    ELSE Level3And4(st, gp, reactants, Append(trace, "L2"), ctor, service, fb)

\* HierarchicalReactionPredictor.predict, whole call
router_predict(st, hm, d, ml, gp, reactants, ml_result, ctor, service, fb) ==
    LET st1 == Bump(st, "total_predictions")
    IN  IF Level1Accepts(hm, d, reactants)
        THEN [stats |-> Bump(st1, "level1_hits"), gemini_predictor |-> gp,
              call |-> [reactants |-> reactants, trace |-> <<"L1">>, raised |-> FALSE,
                        l3 |-> "none", client |-> "none", before |-> st,
                        result |-> Level1Result(d, reactants)]]
        ELSE Level2To4(st1, ml, gp, reactants, IF hm THEN <<"L1">> ELSE <<>>,
                       ml_result, ctor, service, fb)

RouterLists == ListsUpTo({H, O}, MaxRouterAtoms)

\* The index a loaded hybrid_model.pkl holds
LoadedDicts ==
    {EmptyDict,
     TrainAll(EmptyDict, <<[reactants |-> <<H, H, O>>, products |-> <<F_H2O>>],
                           [reactants |-> <<O, H, H>>, products |-> <<F_OH, H>>],
                           [reactants |-> <<H, H>>, products |-> <<F_H2>>]>>)}

----------------------------------------------------------------------------
(* Result cache: ResultCache over a cache directory *)

\* ResultCache.__init__: ttl_hours = 24; the clock of the model counts hours
ttl_hours == 24

\* payloads given to set; "empty" is the empty dict {}
Payloads == {"result", "empty"}

\* What a file of the cache directory holds: text that json.load rejects (json
\* "invalid"), a JSON value that is not an object ("list"), or an object whose
\* 'timestamp' and 'data' members may be missing; a timestamp is an ISO-8601
\* string of hour t ("iso"), another string ("not_iso") or not a string ("not_str").
\* cache_entry of ResultCache.set as json.dump writes it ('elements' is written
\* and never read back, and is left out)
CacheEntry(t, data) ==
    [json |-> "object",
     timestamp |-> [kind |-> "iso", t |-> t],
     data |-> [present |-> TRUE, value |-> data]]

\* os.remove(cache_path)
Remove(files, key) == [k \in DOMAIN files \ {key} |-> files[k]]

ExpiredAtTtl(file, clock) == clock - file.timestamp.t >= ttl_hours

\* datetime.now() - cached_time > self.ttl
Expired(file, clock) == clock - file.timestamp.t > ttl_hours

\* The exception the try block of ResultCache.get raises on a file, "none" when it
\* runs to a return: json.load, cached['timestamp'], datetime.fromisoformat, the
\* expiry test, cached['data'].
GetRaises(file, clock) ==
    IF file.json = "invalid" THEN "JSONDecodeError"
    ELSE IF file.json # "object" THEN "TypeError"
    ELSE IF file.timestamp.kind = "missing" THEN "KeyError"
    ELSE IF file.timestamp.kind = "not_str" THEN "TypeError"
    ELSE IF file.timestamp.kind = "not_iso" THEN "ValueError"
    ELSE IF Expired(file, clock) THEN "none"
    ELSE IF ~file.data.present THEN "KeyError"
    ELSE "none"

\* except (json.JSONDecodeError, KeyError, ValueError)
Caught == {"JSONDecodeError", "KeyError", "ValueError"}

cache_get_keep_expired(files, clock, key) ==
    IF key \notin DOMAIN files
    THEN [out |-> None, raised |-> "none", files |-> files, branch |-> "absent"]
    ELSE IF GetRaises(files[key], clock) = "none"
    THEN IF Expired(files[key], clock)
         THEN [out |-> None, raised |-> "none", files |-> files, branch |-> "expired"]
         ELSE [out |-> files[key].data.value, raised |-> "none", files |-> files,
               branch |-> "hit"]
    ELSE IF GetRaises(files[key], clock) \in Caught
    THEN [out |-> None, raised |-> "none", files |-> Remove(files, key),
          branch |-> "corrupted"]
    ELSE [out |-> None, raised |-> GetRaises(files[key], clock), files |-> files,
          branch |-> "uncaught"]

\* ResultCache.get on the file stored under key: the value returned, the exception
\* that leaves the call ("none" when it returns), the directory afterwards and the
\* branch of the code that ended the call
cache_get(files, clock, key) ==
    IF key \notin DOMAIN files
    THEN [out |-> None, raised |-> "none", files |-> files, branch |-> "absent"]
    ELSE IF GetRaises(files[key], clock) = "none"
    THEN IF Expired(files[key], clock)
         THEN [out |-> None, raised |-> "none", files |-> Remove(files, key), branch |-> "expired"]
         ELSE [out |-> files[key].data.value, raised |-> "none", files |-> files,
               branch |-> "hit"]
    ELSE IF GetRaises(files[key], clock) \in Caught
    THEN [out |-> None, raised |-> "none", files |-> Remove(files, key),
          branch |-> "corrupted"]
    ELSE [out |-> None, raised |-> GetRaises(files[key], clock), files |-> files,
          branch |-> "uncaught"]

cache_set_if_absent(files, clock, key, data) ==
    [k \in DOMAIN files \cup {key} |->
        IF k = key /\ k \notin DOMAIN files THEN CacheEntry(clock, data) ELSE files[k]]

\* ResultCache.set: open(cache_path, 'w') and json.dump(cache_entry)
cache_set(files, clock, key, data) ==
    [k \in DOMAIN files \cup {key} |-> IF k = key THEN CacheEntry(clock, data) ELSE files[k]]

\* ResultCache.get_stats()['total_entries']
total_entries(files) == Cardinality(DOMAIN files)

\* {} : an empty cache directory, an empty access_counts
NoFiles == [k \in {} |-> 0]

NoCacheCall == [op |-> "none", key |-> get_cache_key(<<>>, None), data |-> None,
                out |-> None, raised |-> "none", branch |-> "none", evicted |-> {}]

CacheIdle ==
    /\ now = 0
    /\ cache_files = NoFiles
    /\ access_counts = NoFiles
    /\ cacheCall = NoCacheCall
    /\ latest_set = NoFiles

----------------------------------------------------------------------------
(* Frequency-tracking cache: SmartCache over a ResultCache *)

max_entries == 5     \* SmartCache(max_entries=...): the ceiling given to the constructor
MaxAccess == 2       \* reads counted for one key

\* `if result:` on what ResultCache.get returned: None and {} are falsy
Truthy(result) == result \notin {None, "empty"}

\* self.access_counts[key] = self.access_counts.get(key, 0) + 1
CountInc(counts, key) ==
    [k \in DOMAIN counts \cup {key} |->
        IF k = key THEN (IF key \in DOMAIN counts THEN counts[key] ELSE 0) + 1
        ELSE counts[k]]

\* SmartCache.get
smart_get(files, counts, clock, key) ==
    LET r == cache_get(files, clock, key)
    IN  [out |-> r.out, raised |-> r.raised, branch |-> r.branch, files |-> r.files,
         counts |-> IF r.raised = "none" /\ Truthy(r.out) THEN CountInc(counts, key)
                    ELSE counts]

\* len(sorted_keys) // 5
num_to_remove(counts) == Cardinality(DOMAIN counts) \div 5

\* The keys of sorted_keys[:num_to_remove], sorted_keys being the counters sorted by
\* count. The sort is stable over the dict's insertion order, which the model does
\* not keep: among keys of equal count any may come first.
LeastUsed(counts) ==
    {E \in SUBSET DOMAIN counts :
        /\ Cardinality(E) = num_to_remove(counts)
        /\ \A e \in E, k \in DOMAIN counts \ E : counts[e] <= counts[k]}

Restrict(f, S) == [k \in DOMAIN f \ S |-> f[k]]

\* SmartCache._cleanup_least_used, E being the keys of sorted_keys[:num_to_remove]:
\* nothing is done when no counter exists
cleanup_least_used(files, counts, E) ==
    IF DOMAIN counts = {}
    THEN [files |-> files, counts |-> counts]
    ELSE [files |-> Restrict(files, E), counts |-> Restrict(counts, E)]

\* SmartCache.set: the directory and the counters afterwards, and the files removed
smart_set(files, counts, clock, key, data, E) ==
    LET c == IF total_entries(files) >= max_entries
             THEN cleanup_least_used(files, counts, E)
             ELSE [files |-> files, counts |-> counts]
    IN  [files |-> cache_set(c.files, clock, key, data),
         counts |-> c.counts,
         evicted |-> DOMAIN files \ DOMAIN c.files]

----------------------------------------------------------------------------
(* Validation scorer: ReactionValidator *)

C  == <<67>>
Ca == <<67, 97>>
Cl == <<67, 108>>
Na == <<78, 97>>

F_NaCl == <<78, 97, 67, 108>>
F_CH4  == <<67, 72, 52>>
F_CaOH2 == <<67, 97, 40, 79, 72, 41, 50>>     \* "Ca(OH)2"

Plus == <<43>>

\* ReactionValidator.KNOWN_PATTERNS: the dict's keys with their 'elements' and
\* 'expected' members ('confidence' is only copied into the check's report)
KNOWN_PATTERNS ==
    {[key |-> <<72, 43, 72>>,          elements |-> <<H, H>>,          expected |-> F_H2],
     [key |-> <<72, 43, 72, 43, 79>>,  elements |-> <<H, H, O>>,       expected |-> F_H2O],
     [key |-> <<79, 43, 72>>,          elements |-> <<O, H>>,          expected |-> F_OH],
     [key |-> <<78, 97, 43, 67, 108>>, elements |-> <<Na, Cl>>,        expected |-> F_NaCl],
     [key |-> <<67, 43, 52, 72>>,      elements |-> <<C, H, H, H, H>>, expected |-> F_CH4]}

IsUpper(c) == c \in 65..90
IsLower(c) == c \in 97..122
IsDigit(c) == c \in 48..57

\* length of the longest prefix of digits: what (\d*) matches
RECURSIVE DigitsLen(_)
DigitsLen(s) == IF s # <<>> /\ IsDigit(Head(s)) THEN 1 + DigitsLen(Tail(s)) ELSE 0

\* int(digits)
RECURSIVE IntOf(_)
IntOf(digits) ==
    IF digits = <<>> THEN 0
    ELSE 10 * IntOf(SubSeq(digits, 1, Len(digits) - 1)) + (digits[Len(digits)] - 48)

\* re.compile(r'([A-Z][a-z]?)(\d*)').finditer(formula): the matches left to right,
\* each as its element and count (1 when no digits follow)
RECURSIVE FormulaMatches(_)
FormulaMatches(s) ==
    IF s = <<>> THEN <<>>
    ELSE IF ~IsUpper(Head(s)) THEN FormulaMatches(Tail(s))
    ELSE LET n == IF Len(s) >= 2 /\ IsLower(s[2]) THEN 2 ELSE 1
             rest == SubSeq(s, n + 1, Len(s))
             d == DigitsLen(rest)
         IN  <<[elem |-> SubSeq(s, 1, n),
                count |-> IF d = 0 THEN 1 ELSE IntOf(SubSeq(rest, 1, d))]>>
             \o FormulaMatches(SubSeq(rest, d + 1, Len(rest)))

\* the defaultdict(int) after `counts[elem] += count` for each item: a key for every
\* element met, even with a count of 0
RECURSIVE SumOver(_, _)
SumOver(items, e) ==
    IF items = <<>> THEN 0
    ELSE (IF Head(items).elem = e THEN Head(items).count ELSE 0) + SumOver(Tail(items), e)

CountsOf(items) ==
    [e \in {items[i].elem : i \in DOMAIN items} |-> SumOver(items, e)]

\* ReactionValidator._parse_formula
parse_formula(formula) == CountsOf(FormulaMatches(formula))

\* a product that is a dict; the bare strings of an unparsed service answer are not
IsDict(product) == "formula" \in DOMAIN product

\* output_counts of _check_mass_balance: `output_counts[elem] += count` for the
\* items of each product's parsed formula
RECURSIVE OutputCounts(_)
OutputCounts(products) ==
    IF products = <<>> THEN [e \in {} |-> 0]
    ELSE LET parsed == parse_formula(Head(products).formula)
             rest == OutputCounts(Tail(products))
         IN  [e \in DOMAIN parsed \cup DOMAIN rest |->
                 (IF e \in DOMAIN parsed THEN parsed[e] ELSE 0)
                 + (IF e \in DOMAIN rest THEN rest[e] ELSE 0)]

\* ReactionValidator._check_mass_balance (the products being dicts)
check_mass_balance(elements, products) ==
    [name |-> "mass_balance",
     passed |-> [e \in SetOf(elements) |-> CountOf(elements, e)] = OutputCounts(products),
     matched |-> FALSE,
     warnings |-> <<>>]

\* ReactionValidator._check_charge_balance
check_charge_balance(elements, products) ==
    [name |-> "charge_balance", passed |-> TRUE, matched |-> FALSE, warnings |-> <<>>]

\* ReactionValidator._check_known_patterns: '+'.join(sorted(elements)) is looked up
\* among the keys of KNOWN_PATTERNS
check_known_patterns(elements, products) ==
    [name |-> "pattern_matching",
     passed |-> TRUE,
     matched |-> \E p \in KNOWN_PATTERNS :
                    /\ p.key = join(Plus, sorted(elements))
                    /\ \E i \in DOMAIN products : products[i].formula = p.expected,
     warnings |-> <<>>]

\* quantum_features.get(section, {}).get(field, default)
Feature(quantum_features, section, field, default) ==
    IF quantum_features[section].present THEN quantum_features[section][field] ELSE default

\* ReactionValidator._check_thermodynamics; energies in hundredths of a hartree
check_thermodynamics(quantum_features) ==
    IF ~Feature(quantum_features, "stability_metrics", "is_stable", TRUE)
    THEN [name |-> "thermodynamics", passed |-> FALSE, matched |-> FALSE,
          warnings |-> <<"Unstable system (positive energy) - reaction unlikely">>]
    ELSE IF Feature(quantum_features, "stability_metrics", "electronic_binding_energy", 0)
                > -10
    THEN [name |-> "thermodynamics", passed |-> FALSE, matched |-> FALSE,
          warnings |-> <<"Weak binding - system may not be stable enough">>]
    ELSE [name |-> "thermodynamics", passed |-> TRUE, matched |-> FALSE,
          warnings |-> <<>>]

\* sum(p.get('probability', 0) for p in products) as a fraction <<n, d>>
RECURSIVE ProbabilitySum(_)
ProbabilitySum(products) ==
    IF products = <<>> THEN <<0, 1>>
    ELSE LET p == Head(products).probability
             rest == ProbabilitySum(Tail(products))
         IN  <<p[1] * rest[2] + rest[1] * p[2], p[2] * rest[2]>>

Abs(x) == IF x < 0 THEN -x ELSE x

\* ReactionValidator._check_probability_sum: abs(total_prob - 1.0) < 0.05
check_probability_sum(products) ==
    [name |-> "probability_sum",
     passed |-> 20 * Abs(ProbabilitySum(products)[1] - ProbabilitySum(products)[2])
                    < ProbabilitySum(products)[2],
     matched |-> FALSE,
     warnings |-> <<>>]

\* ReactionValidator._check_quantum_consistency
check_quantum_consistency(quantum_features, products) ==
    LET is_radical == Feature(quantum_features, "reactivity_indicators", "is_radical", FALSE)
        gap_category == Feature(quantum_features, "electronic_features", "gap_category",
                                "unknown")
        warnings ==
            (IF is_radical /\ gap_category = "stable"
             THEN <<"Radical reactant predicted as stable - check spin multiplicity">>
             ELSE <<>>)
            \o (IF gap_category = "highly_reactive" /\ Len(products) = 1
                THEN <<"Highly reactive system might have multiple products">>
                ELSE <<>>)
    IN  [name |-> "quantum_consistency", passed |-> Len(warnings) = 0, matched |-> FALSE,
         warnings |-> warnings]

RECURSIVE SumSeq(_)
SumSeq(s) == IF s = <<>> THEN 0 ELSE Head(s) + SumSeq(Tail(s))

NoClamp(x) == x

\* max(0.0, min(1.0, final_confidence)); confidences are counted in sixtieths, in
\* which passed/6 and every adjustment are whole numbers
Clamp(x) == IF x < 0 THEN 0 ELSE IF x > 60 THEN 60 ELSE x

\* validate_prediction, lines 95-100: 0.8 is 48 sixtieths, 0.6 is 36
Label(final_confidence) ==
    IF final_confidence >= 48 THEN "LIKELY_CORRECT"
    ELSE IF final_confidence >= 36 THEN "UNCERTAIN"
    ELSE "LIKELY_INCORRECT"

NoReport == [result |-> "none", confidence |-> 0, checks_passed |-> <<0, 0>>,
             warnings |-> <<>>, detailed_checks |-> <<>>, adjustments |-> <<>>]

\* ReactionValidator.validate_prediction: the exception that leaves the call ("none"
\* when it returns) and the report returned, with the list confidence_adjustments.
\* _check_mass_balance calls product.get on every product, which raises
\* AttributeError on a product that is a string.
validate_prediction(elements, predicted_products, quantum_features) ==
    IF \E i \in DOMAIN predicted_products : ~IsDict(predicted_products[i])
    THEN [raised |-> "AttributeError", validation |-> NoReport]
    ELSE
    LET mass_check == check_mass_balance(elements, predicted_products)
        charge_check == check_charge_balance(elements, predicted_products)
        pattern_check == check_known_patterns(elements, predicted_products)
        thermo_check == check_thermodynamics(quantum_features)
        prob_check == check_probability_sum(predicted_products)
        quantum_check == check_quantum_consistency(quantum_features, predicted_products)
        checks == <<mass_check, charge_check, pattern_check, thermo_check, prob_check,
                    quantum_check>>
        warnings ==
            (IF ~mass_check.passed
             THEN <<"Mass balance violated - atoms not conserved">> ELSE <<>>)
            \o (IF ~charge_check.passed
                THEN <<"Charge balance may be incorrect">> ELSE <<>>)
            \o (IF ~thermo_check.passed THEN thermo_check.warnings ELSE <<>>)
            \o (IF ~prob_check.passed
                THEN <<"Product probabilities don't sum to 1.0">> ELSE <<>>)
            \o quantum_check.warnings
        confidence_adjustments ==
            (IF ~mass_check.passed THEN <<-18>> ELSE <<>>)
            \o (IF ~charge_check.passed THEN <<-6>> ELSE <<>>)
            \o (IF pattern_check.matched THEN <<6>> ELSE <<>>)
            \o (IF ~thermo_check.passed THEN <<-12>> ELSE <<>>)
            \o (IF ~prob_check.passed THEN <<-9>> ELSE <<>>)
            \o (IF quantum_check.warnings # <<>>
                THEN <<-6 * Len(quantum_check.warnings)>> ELSE <<>>)
        passed_checks == Cardinality({i \in DOMAIN checks : checks[i].passed})
        base_confidence == (60 * passed_checks) \div Len(checks)
        final_confidence == Clamp(base_confidence + SumSeq(confidence_adjustments))
    IN  [raised |-> "none",
         validation |-> [result |-> Label(final_confidence),
                         confidence |-> final_confidence,
                         checks_passed |-> <<passed_checks, Len(checks)>>,
                         warnings |-> warnings,
                         detailed_checks |-> checks,
                         adjustments |-> confidence_adjustments]]

\* a history that keeps the latest record only
history_keep_latest(history, record) == <<record>>

\* self.validation_history.append({...})
history_append(history, record) == Append(history, record)

\* results.count(label)
CountResult(history, label) ==
    Cardinality({i \in DOMAIN history : history[i].validation.result = label})

\* ReactionValidator.get_validation_stats: an empty history is answered with the
\* total alone. average_confidence and pass_rate, derived from the same lists, are
\* left out.
get_validation_stats(history) ==
    IF history = <<>>
    THEN [total_validations |-> 0]
    ELSE [total_validations |-> Len(history),
          correct_count |-> CountResult(history, "LIKELY_CORRECT"),
          uncertain_count |-> CountResult(history, "UNCERTAIN"),
          incorrect_count |-> CountResult(history, "LIKELY_INCORRECT")]

NoValidation == [op |-> "none", elements |-> <<>>, predicted |-> <<>>,
                 quantum_features |-> <<>>, raised |-> "none", validation |-> NoReport]

ValidatorIdle ==
    /\ validation_history = <<>>
    /\ lastValidation = NoValidation

----------------------------------------------------------------------------
(* Initial values of the components *)

PureIdle == fn = "none" /\ fnArgs = <<>> /\ fnOut = <<>>

IndexIdle ==
    /\ reaction_dict = EmptyDict
    /\ total_reactions = 0
    /\ unique_reactant_combos = 0
    /\ trained = <<>>
    /\ prevDict = EmptyDict
    /\ trainRaised = FALSE
    /\ lastPredict = NoPredict

Threads == 1..NumThreads

NoLocal == [op |-> "none"]

\* no caller is inside a call, nobody holds the lock
ThreadsIdle ==
    /\ pc = [t \in Threads |-> "idle"]
    /\ local = [t \in Threads |-> NoLocal]
    /\ lock = 0

RouterIdle ==
    /\ hybrid_model = FALSE
    /\ ml_model = "absent"
    /\ gemini_predictor = FALSE
    /\ stats = ZeroStats
    /\ lastCall = NoCall

----------------------------------------------------------------------------
(* Pure functions applied to bounded inputs *)

\* The harness starts with the arguments of one call and applies the function once.
InitKey ==
    /\ \/ fn = "call_canonicalize" /\ fnArgs \in ReactantLists \X ReactantLists \X Geometries
       \/ fn = "call_fallback" /\ fnArgs \in {<<x>> : x \in ReactantLists}
    /\ fnOut = <<>>
    /\ IndexIdle
    /\ RouterIdle
    /\ CacheIdle
    /\ ValidatorIdle
    /\ ThreadsIdle

\* _normalize_reactants and _get_cache_key applied to two reactant lists
Canonicalize ==
    /\ fn = "call_canonicalize"
    /\ fn' = "canonicalize"
    /\ fnOut' = <<normalize_reactants(fnArgs[1]), normalize_reactants(fnArgs[2]),
                  get_cache_key(fnArgs[1], fnArgs[3]), get_cache_key(fnArgs[2], fnArgs[3])>>
    /\ UNCHANGED <<fnArgs, indexVars, routerVars, cacheVars, validatorVars, threadVars>>

\* _fallback_prediction applied to a reactant list
Fallback ==
    /\ fn = "call_fallback"
    /\ \E r \in fallback_prediction(fnArgs[1]) :
        /\ fn' = "fallback"
        /\ fnOut' = r
    /\ UNCHANGED <<fnArgs, indexVars, routerVars, cacheVars, validatorVars, threadVars>>

NextKey == Canonicalize \/ Fallback
SpecKey == InitKey /\ [][NextKey]_vars

----------------------------------------------------------------------------
(* The exact-match index under train and predict calls *)

\* HybridReactionPredictor.train: the counters are set before the compression
\* ratio total_reactions/unique_reactant_combos is printed, which raises
\* ZeroDivisionError when the index has no key.
Train ==
    \E corpus \in Corpora :
        /\ Len(trained) < MaxTrains
        /\ Len(Flatten(trained)) + Len(corpus) <= MaxReactions
        /\ reaction_dict' = TrainAll(reaction_dict, corpus)
        /\ total_reactions' = Len(corpus)
        /\ unique_reactant_combos' = Cardinality(DOMAIN reaction_dict')
        /\ trainRaised' = (Cardinality(DOMAIN reaction_dict') = 0)
        /\ trained' = Append(trained, corpus)
        /\ prevDict' = reaction_dict
        /\ lastPredict' = NoPredict
        /\ UNCHANGED <<pureVars, routerVars, cacheVars, validatorVars, threadVars>>

\* HybridReactionPredictor.predict
Predict ==
    \E x \in QueryLists, k \in 1..MaxTopK :
        /\ lastPredict' = [op |-> "predict", reactants |-> x, top_k |-> k,
                           out |-> hybrid_predict(reaction_dict, x, k)]
        /\ UNCHANGED <<reaction_dict, total_reactions, unique_reactant_combos,
                       trained, prevDict, trainRaised, pureVars, routerVars,
                       cacheVars, validatorVars, threadVars>>

\* HybridReactionPredictor.predict_with_fallback
PredictWithFallback ==
    \E x \in QueryLists :
        /\ lastPredict' = [op |-> "predict_with_fallback", reactants |-> x, top_k |-> 3,
                           out |-> predict_with_fallback(reaction_dict, x, 3)]
        /\ UNCHANGED <<reaction_dict, total_reactions, unique_reactant_combos,
                       trained, prevDict, trainRaised, pureVars, routerVars,
                       cacheVars, validatorVars, threadVars>>

InitIndex == PureIdle /\ IndexIdle /\ RouterIdle /\ CacheIdle /\ ValidatorIdle /\ ThreadsIdle
NextIndex == Train \/ Predict \/ PredictWithFallback
SpecIndex == InitIndex /\ [][NextIndex]_vars

----------------------------------------------------------------------------
(* The router under sequential predict calls *)

\* HierarchicalReactionPredictor.__init__: each model is loaded if its pickle is there
InitRouter ==
    /\ PureIdle
    /\ hybrid_model \in BOOLEAN
    /\ reaction_dict \in (IF hybrid_model THEN LoadedDicts ELSE {EmptyDict})
    /\ total_reactions = 0
    /\ unique_reactant_combos = Cardinality(DOMAIN reaction_dict)
    /\ trained = <<>>
    /\ prevDict = EmptyDict
    /\ trainRaised = FALSE
    /\ lastPredict = NoPredict
    /\ ml_model \in MlModels
    /\ gemini_predictor = FALSE
    /\ stats = ZeroStats
    /\ lastCall = NoCall
    /\ CacheIdle
    /\ ValidatorIdle
    /\ ThreadsIdle

\* The inputs of one call: the classifier, the client constructor and the service
\* answer only when the call consults them.
MlChoices(reactants) ==
    IF Level1Accepts(hybrid_model, reaction_dict, reactants) \/ ml_model = "absent"
    THEN {NoMlResult}
    ELSE ml_predict(ml_model, reactants)

ReachesLevel3(reactants, ml_result) ==
    /\ ~Level1Accepts(hybrid_model, reaction_dict, reactants)
    /\ ml_model = "absent" \/ (~ml_result.raised /\ ~Level2Accepts(ml_result.confidence))

CtorChoices(reactants, ml_result) ==
    IF ReachesLevel3(reactants, ml_result) /\ ~gemini_predictor THEN CtorOutcomes ELSE {"ok"}

ServiceChoices(reactants, ml_result, ctor) ==
    IF ReachesLevel3(reactants, ml_result) /\ (gemini_predictor \/ ctor = "ok")
    THEN ServiceOutcomes
    ELSE {[raises |-> TRUE, text |-> <<>>]}

\* One call of HierarchicalReactionPredictor.predict, start to return (or raise)
RouterPredict ==
    \E reactants \in RouterLists :
      \E ml_result \in MlChoices(reactants) :
        \E ctor \in CtorChoices(reactants, ml_result) :
          \E service \in ServiceChoices(reactants, ml_result, ctor) :
            \E fb \in fallback_prediction(reactants) :
              LET r == router_predict(stats, hybrid_model, reaction_dict, ml_model,
                                      gemini_predictor, reactants, ml_result, ctor, service, fb)
              IN  /\ stats.total_predictions < MaxCalls
                  /\ stats' = r.stats
                  /\ gemini_predictor' = r.gemini_predictor
                  /\ lastCall' = [r.call EXCEPT !.before = stats]
                                     @@ [ml_result |-> ml_result]
                  /\ UNCHANGED <<hybrid_model, ml_model, pureVars, indexVars,
                                 cacheVars, validatorVars, threadVars>>

NextRouter == RouterPredict
SpecRouter == InitRouter /\ [][NextRouter]_vars

----------------------------------------------------------------------------
(* The base cache under set, get, the passing of time and damaged files *)

MaxClock == 26       \* hours the clock runs

\* two orderings of one molecule and the same molecule with a geometry: two keys
CacheInputs == {<<<<H, O>>, None>>, <<<<O, H>>, None>>, <<<<H, O>>, "g1">>}

KeyOf(input) == get_cache_key(input[1], input[2])

\* the clock moves by half the TTL or an hour more, so that an entry is met at
\* the age of exactly the TTL and at an age above it
ClockSteps == {ttl_hours \div 2, ttl_hours \div 2 + 1}

\* a file that ResultCache.set did not write whole, or that something else wrote
Damaged(file) ==
    {[json |-> "invalid", timestamp |-> [kind |-> "missing", t |-> 0],
      data |-> [present |-> FALSE, value |-> None]],
     [json |-> "list", timestamp |-> [kind |-> "missing", t |-> 0],
      data |-> [present |-> FALSE, value |-> None]],
     [file EXCEPT !.timestamp = [kind |-> "missing", t |-> 0]],
     [file EXCEPT !.timestamp = [kind |-> "not_iso", t |-> 0]],
     [file EXCEPT !.timestamp = [kind |-> "not_str", t |-> 0]],
     [file EXCEPT !.data = [present |-> FALSE, value |-> None]]}

WellFormed(file) ==
    file.json = "object" /\ file.timestamp.kind = "iso" /\ file.data.present

\* history of set calls: the hour and the payload of the latest set of each key
Stamp(history, clock, key, data) ==
    [k \in DOMAIN history \cup {key} |->
        IF k = key THEN [t |-> clock, data |-> data] ELSE history[k]]

\* ResultCache.set
CacheSet ==
    \E input \in CacheInputs, data \in Payloads :
        /\ cache_files' = cache_set(cache_files, now, KeyOf(input), data)
        /\ cacheCall' = [NoCacheCall EXCEPT !.op = "set", !.key = KeyOf(input),
                                            !.data = data]
        /\ latest_set' = Stamp(latest_set, now, KeyOf(input), data)
        /\ UNCHANGED <<now, access_counts, pureVars, indexVars, routerVars, validatorVars,
                       threadVars>>

\* ResultCache.get
CacheGet ==
    \E input \in CacheInputs :
        LET r == cache_get(cache_files, now, KeyOf(input))
        IN  /\ cache_files' = r.files
            /\ cacheCall' = [NoCacheCall EXCEPT !.op = "get", !.key = KeyOf(input),
                                                !.out = r.out, !.raised = r.raised,
                                                !.branch = r.branch]
            /\ UNCHANGED <<now, access_counts, latest_set, pureVars, indexVars,
                           routerVars, validatorVars, threadVars>>

\* datetime.now() moves on
Tick ==
    \E d \in ClockSteps :
        /\ now + d <= MaxClock
        /\ now' = now + d
        /\ cacheCall' = [NoCacheCall EXCEPT !.op = "tick"]
        /\ UNCHANGED <<cache_files, access_counts, latest_set, pureVars, indexVars,
                       routerVars, validatorVars, threadVars>>

\* a stored entry is damaged on disk
Damage ==
    \E key \in DOMAIN cache_files :
        /\ WellFormed(cache_files[key])
        /\ \E file \in Damaged(cache_files[key]) :
              cache_files' = [cache_files EXCEPT ![key] = file]
        /\ cacheCall' = [NoCacheCall EXCEPT !.op = "damage", !.key = key]
        /\ UNCHANGED <<now, access_counts, latest_set, pureVars, indexVars, routerVars,
                       validatorVars, threadVars>>

InitCache == PureIdle /\ IndexIdle /\ RouterIdle /\ CacheIdle /\ ValidatorIdle /\ ThreadsIdle
NextCache == CacheSet \/ CacheGet \/ Tick
SpecCache == InitCache /\ [][NextCache]_vars

\* the same cache whose files can be damaged
NextDamaged == CacheSet \/ CacheGet \/ Tick \/ Damage
SpecDamaged == InitCache /\ [][NextDamaged]_vars

----------------------------------------------------------------------------
(* The smart cache under set and get calls *)

\* six keys, one more than the ceiling
SmartInputs == {<<<<H>>, None>>, <<<<O>>, None>>, <<<<H, O>>, None>>, <<<<H, H>>, None>>,
                <<<<O, O>>, None>>, <<<<H, O>>, "g1">>}

\* SmartCache.set
SmartSet ==
    \E input \in SmartInputs :
      \E E \in LeastUsed(access_counts) :
        LET r == smart_set(cache_files, access_counts, now, KeyOf(input), "result", E)
        IN  /\ cache_files' = r.files
            /\ access_counts' = r.counts
            /\ cacheCall' = [NoCacheCall EXCEPT !.op = "smart_set", !.key = KeyOf(input),
                                                !.data = "result", !.evicted = r.evicted]
            /\ latest_set' = Stamp(latest_set, now, KeyOf(input), "result")
            /\ UNCHANGED <<now, pureVars, indexVars, routerVars, validatorVars,
                           threadVars>>

\* SmartCache.get
SmartGet ==
    \E input \in SmartInputs :
        LET r == smart_get(cache_files, access_counts, now, KeyOf(input))
        IN  /\ KeyOf(input) \in DOMAIN access_counts =>
                  access_counts[KeyOf(input)] < MaxAccess
            /\ cache_files' = r.files
            /\ access_counts' = r.counts
            /\ cacheCall' = [NoCacheCall EXCEPT !.op = "smart_get", !.key = KeyOf(input),
                                                !.out = r.out, !.raised = r.raised,
                                                !.branch = r.branch]
            /\ UNCHANGED <<now, latest_set, pureVars, indexVars, routerVars,
                           validatorVars, threadVars>>

NextSmart == SmartSet \/ SmartGet
SpecSmart == InitCache /\ [][NextSmart]_vars

----------------------------------------------------------------------------
(* The validator applied to bounded predictions *)

MaxProducts == 2     \* longest list of candidate products drawn freely
MaxValidations == 3  \* completed validations kept in one history

\* every ordering of a reactant list
Orderings(x) == {s \in [1..Len(x) -> SetOf(x)] : \A e \in SetOf(x) : CountOf(s, e) = CountOf(x, e)}

\* the reactants of the five known patterns in every order, and four other lists
ValidatorElements ==
    UNION {Orderings(p.elements) : p \in KNOWN_PATTERNS}
    \cup {<<>>, <<H>>, <<O, O>>, <<Ca, O, O, H, H>>}

ProductDicts ==
    {[formula |-> f, probability |-> Prob(1, 1)] :
        f \in {F_H2, F_H2O, F_OH, F_NaCl, F_CH4, F_CaOH2}}
    \cup {[formula |-> H, probability |-> Prob(1, 2)]}

\* products the router returns for the reactants: from the external reasoning
\* service (parsed or not), the classifier and the fallback
RouterProducts(elements) ==
    {parse_response(t).products : t \in Responses}
    \cup {r.products : r \in ml_predict("trained", <<H>>)}
    \cup {r.products : r \in fallback_prediction(elements)}

ProductLists(elements) == ListsUpTo(ProductDicts, MaxProducts) \cup RouterProducts(elements)

Missing == [present |-> FALSE]

\* quantum-feature records: each section present or missing
QuantumFeatures ==
    [stability_metrics :
        {Missing,
         [present |-> TRUE, is_stable |-> TRUE, electronic_binding_energy |-> -100],
         [present |-> TRUE, is_stable |-> TRUE, electronic_binding_energy |-> -5],
         [present |-> TRUE, is_stable |-> FALSE, electronic_binding_energy |-> -100]},
     electronic_features :
        {Missing, [present |-> TRUE, gap_category |-> "stable"],
         [present |-> TRUE, gap_category |-> "highly_reactive"]},
     reactivity_indicators :
        {Missing, [present |-> TRUE, is_radical |-> TRUE]}]

\* the harness starts with the arguments of one call
InitValidator ==
    /\ PureIdle /\ IndexIdle /\ RouterIdle /\ CacheIdle /\ ThreadsIdle
    /\ validation_history = <<>>
    /\ \E elements \in ValidatorElements :
        \E predicted \in ProductLists(elements), features \in QuantumFeatures :
            lastValidation = [NoValidation EXCEPT !.op = "call", !.elements = elements,
                                                  !.predicted = predicted,
                                                  !.quantum_features = features]

\* ReactionValidator.validate_prediction
Validate ==
    /\ lastValidation.op = "call"
    /\ LET r == validate_prediction(lastValidation.elements, lastValidation.predicted,
                                    lastValidation.quantum_features)
       IN  /\ lastValidation' = [lastValidation EXCEPT !.op = "validate_prediction",
                                                       !.raised = r.raised,
                                                       !.validation = r.validation]
           /\ validation_history' =
                 IF r.raised = "none"
                 THEN history_append(validation_history,
                                     [elements |-> lastValidation.elements,
                                      predicted |-> lastValidation.predicted,
                                      validation |-> r.validation])
                 ELSE validation_history
    /\ UNCHANGED <<pureVars, indexVars, routerVars, cacheVars, threadVars>>

NextValidator == Validate
SpecValidator == InitValidator /\ [][NextValidator]_vars

----------------------------------------------------------------------------
(* The smart cache with either payload, under the passing of time and damage *)

\* SmartCache.set of either payload on the inputs of the base cache; two keys
\* stay below the ceiling, so that no eviction runs here
SmartSetPayload ==
    \E input \in CacheInputs, data \in Payloads :
      \E E \in LeastUsed(access_counts) :
        LET r == smart_set(cache_files, access_counts, now, KeyOf(input), data, E)
        IN  /\ cache_files' = r.files
            /\ access_counts' = r.counts
            /\ cacheCall' = [NoCacheCall EXCEPT !.op = "smart_set", !.key = KeyOf(input),
                                                !.data = data, !.evicted = r.evicted]
            /\ latest_set' = Stamp(latest_set, now, KeyOf(input), data)
            /\ UNCHANGED <<now, pureVars, indexVars, routerVars, validatorVars,
                           threadVars>>

\* SmartCache.get on the same inputs
SmartGetPayload ==
    \E input \in CacheInputs :
        LET r == smart_get(cache_files, access_counts, now, KeyOf(input))
        IN  /\ KeyOf(input) \in DOMAIN access_counts =>
                  access_counts[KeyOf(input)] < MaxAccess
            /\ cache_files' = r.files
            /\ access_counts' = r.counts
            /\ cacheCall' = [NoCacheCall EXCEPT !.op = "smart_get", !.key = KeyOf(input),
                                                !.out = r.out, !.raised = r.raised,
                                                !.branch = r.branch]
            /\ UNCHANGED <<now, latest_set, pureVars, indexVars, routerVars,
                           validatorVars, threadVars>>

NextSmartClock == SmartSetPayload \/ SmartGetPayload \/ Tick \/ Damage
SpecSmartClock == InitCache /\ [][NextSmartClock]_vars

----------------------------------------------------------------------------
(* The router under concurrent predict calls *)

\* predict takes no lock. stats[c] += 1 reads the counter (BINARY_SUBSCR) and
\* writes it back (STORE_SUBSCR); another caller can run between the two.
\* Each caller makes one call. The tiers are consulted in one step, the
\* counter accesses are steps of their own.

\* what the callers ask: the empty list, a trained key, an untrained one
ThreadLists == {<<>>, <<H, H>>, <<H, O>>}

\* line 76: the read of stats['total_predictions']
ThreadLoadTotal(t) ==
    \E reactants \in ThreadLists :
        /\ pc[t] = "idle"
        /\ pc' = [pc EXCEPT ![t] = "store_total"]
        /\ local' = [local EXCEPT ![t] = [op |-> "predict", reactants |-> reactants,
                                          counter |-> "total_predictions",
                                          reg |-> stats.total_predictions,
                                          raised |-> FALSE]]
        /\ UNCHANGED <<lock, pureVars, indexVars, routerVars, cacheVars, validatorVars>>

\* line 76: the write of stats['total_predictions']
ThreadStoreTotal(t) ==
    /\ pc[t] = "store_total"
    /\ stats' = [stats EXCEPT !.total_predictions = local[t].reg + 1]
    /\ pc' = [pc EXCEPT ![t] = "route"]
    /\ UNCHANGED <<local, lock, hybrid_model, ml_model, gemini_predictor, lastCall,
                   pureVars, indexVars, cacheVars, validatorVars>>

\* lines 79-139 without the counter updates: which tier answers, or the raise
ThreadRoute(t) ==
    /\ pc[t] = "route"
    /\ \E ml_result \in MlChoices(local[t].reactants) :
         \E ctor \in CtorChoices(local[t].reactants, ml_result) :
           \E service \in ServiceChoices(local[t].reactants, ml_result, ctor) :
             \E fb \in fallback_prediction(local[t].reactants) :
               LET r == router_predict(ZeroStats, hybrid_model, reaction_dict, ml_model,
                                       gemini_predictor, local[t].reactants, ml_result,
                                       ctor, service, fb)
                   hit == {c \in {"level1_hits", "level2_hits", "level3_hits", "level4_hits"} :
                              r.stats[c] = 1}
               IN  /\ gemini_predictor' = r.gemini_predictor
                   /\ IF r.call.raised
                      THEN /\ pc' = [pc EXCEPT ![t] = "done"]
                           /\ local' = [local EXCEPT ![t].raised = TRUE]
                      ELSE /\ pc' = [pc EXCEPT ![t] = "load_tier"]
                           /\ local' = [local EXCEPT ![t].counter = CHOOSE c \in hit : TRUE]
    /\ UNCHANGED <<lock, hybrid_model, ml_model, stats, lastCall,
                   pureVars, indexVars, cacheVars, validatorVars>>

\* lines 83, 99, 127, 142: the read of the tier counter
ThreadLoadTier(t) ==
    /\ pc[t] = "load_tier"
    /\ local' = [local EXCEPT ![t].reg = stats[local[t].counter]]
    /\ pc' = [pc EXCEPT ![t] = "store_tier"]
    /\ UNCHANGED <<lock, pureVars, indexVars, routerVars, cacheVars, validatorVars>>

\* lines 83, 99, 127, 142: the write of the tier counter, then the return
ThreadStoreTier(t) ==
    /\ pc[t] = "store_tier"
    /\ stats' = [stats EXCEPT ![local[t].counter] = local[t].reg + 1]
    /\ pc' = [pc EXCEPT ![t] = "done"]
    /\ UNCHANGED <<local, lock, hybrid_model, ml_model, gemini_predictor, lastCall,
                   pureVars, indexVars, cacheVars, validatorVars>>

NextRouterThreads ==
    \E t \in Threads :
        \/ ThreadLoadTotal(t)
        \/ ThreadStoreTotal(t)
        \/ ThreadRoute(t)
        \/ ThreadLoadTier(t)
        \/ ThreadStoreTier(t)

SpecRouterThreads == InitRouter /\ [][NextRouterThreads]_vars

----------------------------------------------------------------------------
(* The smart cache under concurrent set and get calls *)

\* ResultCache.lock (the variable lock: 0 when free, else the holder) guards the
\* body of ResultCache.get, set, clear and get_stats. SmartCache.lock is another
\* lock; it guards the counter update of SmartCache.get and the whole of
\* _cleanup_least_used, each of which is one step here. Each caller makes one call.

\* what a single caller leaves behind after set (and get) of each input of K
Stored(K) == [k \in {KeyOf(i) : i \in K} |-> CacheEntry(0, "result")]
ReadOnce(K) == [k \in {KeyOf(i) : i \in K} |-> 1]

FourInputs == {<<<<H>>, None>>, <<<<O>>, None>>, <<<<H, O>>, None>>, <<<<H, H>>, None>>}
FiveInputs == FourInputs \cup {<<<<O, O>>, None>>}

\* the store one below the ceiling with nothing read yet, or at the ceiling with
\* every entry read once
InitCacheThreads ==
    /\ PureIdle /\ IndexIdle /\ RouterIdle /\ ValidatorIdle /\ ThreadsIdle
    /\ now = 0
    /\ cacheCall = NoCacheCall
    /\ \/ cache_files = Stored(FourInputs) /\ access_counts = NoFiles
       \/ cache_files = Stored(FiveInputs) /\ access_counts = ReadOnce(FiveInputs)
    /\ latest_set = [k \in DOMAIN cache_files |-> [t |-> 0, data |-> "result"]]

\* SmartCache.set, line 172: get_stats() takes and releases ResultCache.lock
ThreadSetStats(t) ==
    \E input \in SmartInputs :
        /\ pc[t] = "idle"
        /\ lock = 0
        /\ pc' = [pc EXCEPT ![t] = "set_check"]
        /\ local' = [local EXCEPT ![t] = [op |-> "smart_set", key |-> KeyOf(input),
                                          total_entries |-> total_entries(cache_files),
                                          cleaned |-> FALSE, raised |-> "none"]]
        /\ UNCHANGED <<lock, pureVars, indexVars, routerVars, cacheVars, validatorVars>>

\* SmartCache.set, lines 174-175: the ceiling test on the number read before, and
\* _cleanup_least_used under SmartCache.lock
ThreadSetCleanup(t) ==
    /\ pc[t] = "set_check"
    /\ pc' = [pc EXCEPT ![t] = "set_write"]
    /\ IF local[t].total_entries >= max_entries
       THEN \E E \in LeastUsed(access_counts) :
              /\ cache_files' = cleanup_least_used(cache_files, access_counts, E).files
              /\ access_counts' = cleanup_least_used(cache_files, access_counts, E).counts
              /\ local' = [local EXCEPT ![t].cleaned = TRUE]
       ELSE UNCHANGED <<cache_files, access_counts, local>>
    /\ UNCHANGED <<lock, now, cacheCall, latest_set, pureVars, indexVars, routerVars,
                   validatorVars>>

\* SmartCache.set, line 177: ResultCache.set writes the file under ResultCache.lock
ThreadSetWrite(t) ==
    /\ pc[t] = "set_write"
    /\ lock = 0
    /\ cache_files' = cache_set(cache_files, now, local[t].key, "result")
    /\ latest_set' = Stamp(latest_set, now, local[t].key, "result")
    /\ pc' = [pc EXCEPT ![t] = "done"]
    /\ UNCHANGED <<local, lock, now, access_counts, cacheCall, pureVars, indexVars,
                   routerVars, validatorVars>>

\* ResultCache.get, lines 75-77: take ResultCache.lock, os.path.exists
ThreadGetExists(t) ==
    \E input \in SmartInputs :
        /\ pc[t] = "idle"
        /\ lock = 0
        /\ local' = [local EXCEPT ![t] = [op |-> "smart_get", key |-> KeyOf(input),
                                          total_entries |-> 0, cleaned |-> FALSE,
                                          raised |-> "none"]]
        /\ IF KeyOf(input) \in DOMAIN cache_files
           THEN pc' = [pc EXCEPT ![t] = "get_read"] /\ lock' = t
           ELSE pc' = [pc EXCEPT ![t] = "done"] /\ lock' = 0
        /\ UNCHANGED <<pureVars, indexVars, routerVars, cacheVars, validatorVars>>

\* ResultCache.get, lines 79-96, holding ResultCache.lock: open raises
\* FileNotFoundError, which the except clause does not name, when the file is gone
ThreadGetRead(t) ==
    /\ pc[t] = "get_read"
    /\ lock' = 0
    /\ IF local[t].key \notin DOMAIN cache_files
       THEN /\ local' = [local EXCEPT ![t].raised = "FileNotFoundError"]
            /\ pc' = [pc EXCEPT ![t] = "done"]
            /\ UNCHANGED cache_files
       ELSE LET r == cache_get(cache_files, now, local[t].key)
            IN  /\ cache_files' = r.files
                /\ local' = [local EXCEPT ![t].raised = r.raised]
                /\ pc' = [pc EXCEPT ![t] = IF r.raised = "none" /\ Truthy(r.out)
                                           THEN "get_count" ELSE "done"]
    /\ UNCHANGED <<now, access_counts, cacheCall, latest_set, pureVars, indexVars,
                   routerVars, validatorVars>>

\* SmartCache.get, lines 163-165: the counter update under SmartCache.lock
ThreadGetCount(t) ==
    /\ pc[t] = "get_count"
    /\ access_counts' = CountInc(access_counts, local[t].key)
    /\ pc' = [pc EXCEPT ![t] = "done"]
    /\ UNCHANGED <<local, lock, now, cache_files, cacheCall, latest_set, pureVars,
                   indexVars, routerVars, validatorVars>>

NextCacheThreads ==
    \E t \in Threads :
        \/ ThreadSetStats(t)
        \/ ThreadSetCleanup(t)
        \/ ThreadSetWrite(t)
        \/ ThreadGetExists(t)
        \/ ThreadGetRead(t)
        \/ ThreadGetCount(t)

SpecCacheThreads == InitCacheThreads /\ [][NextCacheThreads]_vars

----------------------------------------------------------------------------
(* One validator under repeated validations and statistics queries *)

AllFeatures(stable, energy, gap) ==
    [stability_metrics |-> [present |-> TRUE, is_stable |-> stable,
                            electronic_binding_energy |-> energy],
     electronic_features |-> [present |-> TRUE, gap_category |-> gap],
     reactivity_indicators |-> Missing]

\* four calls: a known pattern predicted right, the same with no quantum features,
\* an unbalanced prediction for an unstable system, and the unparsed answer of the
\* external service (a bare string for a product)
HistoryInputs ==
    {<<<<H, H>>, <<[formula |-> F_H2, probability |-> Prob(1, 1)]>>,
       AllFeatures(TRUE, -100, "stable")>>,
     <<<<H, H>>, <<[formula |-> F_H2, probability |-> Prob(1, 1)]>>,
       [stability_metrics |-> Missing, electronic_features |-> Missing,
        reactivity_indicators |-> Missing]>>,
     <<<<O, O>>, <<[formula |-> F_CH4, probability |-> Prob(1, 2)]>>,
       AllFeatures(FALSE, -5, "highly_reactive")>>,
     <<<<H>>, <<[bare |-> "Unknown"]>>, AllFeatures(TRUE, -100, "stable")>>}

\* the caller hands its three objects to validate_prediction
PassArguments ==
    \E input \in HistoryInputs :
        /\ lastValidation.op # "call"
        /\ Len(validation_history) < MaxValidations
        /\ lastValidation' = [NoValidation EXCEPT !.op = "call", !.elements = input[1],
                                                  !.predicted = input[2],
                                                  !.quantum_features = input[3]]
        /\ UNCHANGED <<validation_history, pureVars, indexVars, routerVars, cacheVars,
                       threadVars>>

\* ReactionValidator.get_validation_stats
GetValidationStats ==
    /\ lastValidation.op # "call"
    /\ fn' = "get_validation_stats"
    /\ fnArgs' = <<>>
    /\ fnOut' = <<get_validation_stats(validation_history)>>
    /\ UNCHANGED <<indexVars, routerVars, cacheVars, validatorVars, threadVars>>

NextHistory == PassArguments \/ Validate \/ GetValidationStats
SpecHistory == InitIndex /\ [][NextHistory]_vars

----------------------------------------------------------------------------
(* Reference notions used by the properties *)

\* x and y hold the same elements with the same multiplicities
SameMultiset(x, y) ==
    \A e \in SetOf(x) \cup SetOf(y) : CountOf(x, e) = CountOf(y, e)

\* reactions of a corpus whose reactants are the multiset x and whose first product is p
CorpusCount(corpus, x, p) ==
    Cardinality({i \in DOMAIN corpus :
        SameMultiset(corpus[i].reactants, x) /\ corpus[i].products[1] = p})

\* reactions of a corpus whose reactants are the multiset x
CorpusTotal(corpus, x) ==
    Cardinality({i \in DOMAIN corpus : SameMultiset(corpus[i].reactants, x)})

FirstProducts == {r.products[1] : r \in Reactions}

ProbeLists == QueryLists \cup {r.reactants : r \in Reactions}

\* the count stored for product p under the key of x (0 when absent)
StoredCount(d, x, p) ==
    IF normalize_reactants(x) \in DOMAIN d /\ CounterGet(d[normalize_reactants(x)], p) # 0
    THEN d[normalize_reactants(x)][CounterGet(d[normalize_reactants(x)], p)].count
    ELSE 0

ProductsOf(table) == [i \in DOMAIN table |-> table[i].product]

TierHits(st) == st.level1_hits + st.level2_hits + st.level3_hits + st.level4_hits

TierCounters == {"level1_hits", "level2_hits", "level3_hits", "level4_hits"}

TierRank(t) == CASE t = "L1" -> 1 [] t = "L2" -> 2 [] t = "L3" -> 3 [] t = "L4" -> 4

TierMethod(t) ==
    CASE t = "L1" -> "level1_hybrid" [] t = "L2" -> "level2_ml"
      [] t = "L3" -> "level3_gemini" [] t = "L4" -> "level4_fallback"

Called == stats.total_predictions > 0

----------------------------------------------------------------------------
(* Properties *)

\* C1: every predict call adds one to total_predictions and one to exactly one
\* tier counter, so the four tier counters always sum to total_predictions.
C1_TierAccounting ==
    /\ TierHits(stats) = stats.total_predictions
    /\ Called =>
        /\ stats.total_predictions = lastCall.before.total_predictions + 1
        /\ \E c \in TierCounters :
            /\ stats[c] = lastCall.before[c] + 1
            /\ \A o \in TierCounters \ {c} : stats[o] = lastCall.before[o]

\* C2: within one call the tiers are consulted in the order L1, L2, L3, L4, the
\* call returns from the last tier it consulted, and Level 1 accepts exactly when
\* the canonical key is in the index, in which case no later tier is consulted.
C2_TierOrder ==
    Called =>
        /\ \A i, j \in DOMAIN lastCall.trace :
              i < j => TierRank(lastCall.trace[i]) < TierRank(lastCall.trace[j])
        /\ ~lastCall.raised =>
              /\ lastCall.trace # <<>>
              /\ lastCall.result.method = TierMethod(lastCall.trace[Len(lastCall.trace)])
        /\ (lastCall.result.method = "level1_hybrid")
              <=> (hybrid_model /\ normalize_reactants(lastCall.reactants) \in DOMAIN reaction_dict)
        /\ lastCall.result.method = "level1_hybrid" => lastCall.trace = <<"L1">>

C2_Witness ==
    /\ Called
    /\ ml_model = "trained"
    /\ lastCall.reactants = <<H, O, H>>
    /\ lastCall.trace = <<"L1">>
    /\ lastCall.result.method = "level1_hybrid"

\* C3: a failure of the client construction or of the external call is not raised
\* to the caller; the call returns the rule-based result and counts one level4 hit
\* and no level3 hit.
C3_Level3FailureFallsThrough ==
    (Called /\ lastCall.l3 \in {"ctor_raised", "call_raised"}) =>
        /\ ~lastCall.raised
        /\ lastCall.result \in fallback_prediction(lastCall.reactants)
        /\ stats.level4_hits = lastCall.before.level4_hits + 1
        /\ stats.level3_hits = lastCall.before.level3_hits

C3_Witness ==
    /\ Called
    /\ lastCall.l3 = "ctor_raised"
    /\ lastCall.result.method = "level4_fallback"
    /\ stats.level4_hits = 1

\* C4: a malformed answer of the external service (no JSON object, or JSON that
\* fails to parse) makes the call fall through to Level 4 and count a level4 hit.
C4_MalformedFallsThrough ==
    (Called /\ lastCall.l3 \in {"no_json", "decode_error"}) =>
        /\ lastCall.result.method = "level4_fallback"
        /\ stats.level4_hits = lastCall.before.level4_hits + 1
        /\ stats.level3_hits = lastCall.before.level3_hits

\* C5: a reactant list and any permutation of it have the same canonical key and,
\* at one geometry, the same cache key.
C5_PermutationInvariant ==
    (fn = "canonicalize" /\ SameMultiset(fnArgs[1], fnArgs[2])) =>
        /\ fnOut[1] = fnOut[2]
        /\ fnOut[3] = fnOut[4]

C5_Witness ==
    /\ fn = "canonicalize"
    /\ fnArgs[1] = <<O, He, H>>
    /\ fnArgs[2] = <<H, O, He>>
    /\ fnOut[1] = <<72, 44, 72, 101, 44, 79>>
    /\ fnOut[2] = fnOut[1]

\* C6: two reactant lists have the same canonical key exactly when they are the
\* same multiset.
C6_KeyIffMultiset ==
    fn = "canonicalize" => (SameMultiset(fnArgs[1], fnArgs[2]) <=> fnOut[1] = fnOut[2])

C6_Witness ==
    /\ fn = "canonicalize"
    /\ fnArgs[1] = <<H, H>>
    /\ fnArgs[2] = <<H>>
    /\ fnOut[1] # fnOut[2]

\* C7: on a hit, each returned product's confidence is its recorded count over the
\* sum of all counts of the key; H2O x3 and OH x1 give H2O at 0.75, and the single
\* reaction H,H -> H2 gives exactly [(H2, 1.0)].
C7_FrequencyConfidence ==
    (lastPredict.op = "predict"
        /\ normalize_reactants(lastPredict.reactants) \in DOMAIN reaction_dict) =>
        /\ lastPredict.out # <<>>
        /\ \A i \in DOMAIN lastPredict.out :
              /\ CorpusCount(Flatten(trained), lastPredict.reactants, lastPredict.out[i].product) > 0
              /\ lastPredict.out[i].confidence[1] * CorpusTotal(Flatten(trained), lastPredict.reactants)
                   = lastPredict.out[i].confidence[2]
                       * CorpusCount(Flatten(trained), lastPredict.reactants, lastPredict.out[i].product)
        /\ (/\ CorpusCount(Flatten(trained), lastPredict.reactants, F_H2O) = 3
            /\ CorpusCount(Flatten(trained), lastPredict.reactants, F_OH) = 1)
              => lastPredict.out[1] = [product |-> F_H2O, confidence |-> <<3, 4>>]
        /\ (Flatten(trained) = <<[reactants |-> <<H, H>>, products |-> <<F_H2>>]>>
            /\ lastPredict.reactants = <<H, H>>)
              => lastPredict.out = <<[product |-> F_H2, confidence |-> <<1, 1>>]>>

C7_Witness ==
    /\ lastPredict.op = "predict"
    /\ lastPredict.reactants = <<O, H, H>>
    /\ lastPredict.top_k = 1
    /\ CorpusCount(Flatten(trained), <<H, H, O>>, F_H2O) = 3
    /\ CorpusCount(Flatten(trained), <<H, H, O>>, F_OH) = 1
    /\ lastPredict.out = <<[product |-> F_H2O, confidence |-> <<3, 4>>]>>

SecondTrainSameCorpus ==
    /\ Len(trained) >= 2
    /\ trained[Len(trained)] = trained[Len(trained) - 1]

\* C8 as stated: a second train with the same corpus leaves every frequency table
\* as it was after the first.
C8_RetrainLeavesTables ==
    SecondTrainSameCorpus => reaction_dict = prevDict

\* C8 as amended: a second train with the same corpus keeps every key and each
\* key's products in their order, and adds to each count the number of corpus
\* reactions with that key and product.
C8_RetrainAddsCorpusAgain ==
    SecondTrainSameCorpus =>
        /\ DOMAIN reaction_dict = DOMAIN prevDict
        /\ \A k \in DOMAIN reaction_dict : ProductsOf(reaction_dict[k]) = ProductsOf(prevDict[k])
        /\ \A x \in ProbeLists, p \in FirstProducts :
              StoredCount(reaction_dict, x, p)
                = StoredCount(prevDict, x, p) + CorpusCount(trained[Len(trained)], x, p)

C8_Witness ==
    /\ SecondTrainSameCorpus
    /\ trained[Len(trained)] = <<[reactants |-> <<H, H, O>>, products |-> <<F_H2O>>]>>
    /\ StoredCount(prevDict, <<H, H, O>>, F_H2O) = 1
    /\ StoredCount(reaction_dict, <<H, H, O>>, F_H2O) = 2

SameCounts(d1, d2) ==
    /\ DOMAIN d1 = DOMAIN d2
    /\ \A x \in ProbeLists, p \in FirstProducts : StoredCount(d1, x, p) = StoredCount(d2, x, p)

\* C9: after train(A) then train(B) every (key, product) count is the number of
\* such reactions in A plus the number in B, nothing recorded earlier is lost, and
\* training in the other order gives the same counts.
C9_TrainAdditive ==
    /\ \A x \in ProbeLists, p \in FirstProducts :
          StoredCount(reaction_dict, x, p) = CorpusCount(Flatten(trained), x, p)
    /\ \A x \in ProbeLists :
          normalize_reactants(x) \in DOMAIN reaction_dict <=> CorpusTotal(Flatten(trained), x) > 0
    /\ \A x \in ProbeLists, p \in FirstProducts :
          StoredCount(reaction_dict, x, p) >= StoredCount(prevDict, x, p)
    /\ Len(trained) = 2 =>
          SameCounts(reaction_dict, TrainAll(TrainAll(EmptyDict, trained[2]), trained[1]))

C9_Witness ==
    /\ Len(trained) = 2
    /\ trained[1] # trained[2]
    /\ CorpusCount(trained[1], <<H, H, O>>, F_H2O) = 1
    /\ CorpusCount(trained[2], <<H, H, O>>, F_H2O) = 2
    /\ StoredCount(reaction_dict, <<O, H, H>>, F_H2O) = 3

IsDiatomic(x) == Len(x) = 2 /\ x[1] = x[2]

\* C10: the fallback returns "{element}2" at confidence 80 for two atoms of one
\* element, UNKNOWN at confidence 0 for whatever is neither that nor two distinct
\* elements, always one of the three rule outcomes, with the fallback method and
\* speed instant.
C10_FallbackChain ==
    fn = "fallback" =>
        /\ fnOut.method = "level4_fallback"
        /\ fnOut.speed = "instant"
        /\ Len(fnOut.products) = 1
        /\ fnOut.confidence \in {80, 60, 0}
        /\ IsDiatomic(fnArgs[1]) =>
              /\ fnOut.products[1].formula = fnArgs[1][1] \o <<50>>
              /\ fnOut.confidence = 80
        /\ (~IsDiatomic(fnArgs[1]) /\ Cardinality(SetOf(fnArgs[1])) # 2) =>
              /\ fnOut.products[1].formula = UNKNOWN
              /\ fnOut.confidence = 0
        /\ fnOut.confidence = 60 => Cardinality(SetOf(fnArgs[1])) = 2
        /\ fnOut.confidence = 80 => IsDiatomic(fnArgs[1])

C10_Witness ==
    /\ fn = "fallback"
    /\ fnArgs[1] = <<Xe, Xe>>
    /\ fnOut.products[1].formula = <<88, 101, 50>>
    /\ fnOut.confidence = 80

\* the element of a two-element reactant list that comes first in sorted(reactants)
FirstSorted(x) == sorted(x)[1]

\* C11: for exactly two distinct elements the fallback returns confidence 60 and
\* the formula that puts the element with the higher count first, each element
\* followed by its count when above 1; on equal counts the element that is first
\* in the sorted reactant list is put first, so the formula depends on the
\* reactant multiset alone.
C11_BinaryFormula ==
    (fn = "fallback" /\ Cardinality(SetOf(fnArgs[1])) = 2) =>
        /\ fnOut.confidence = 60
        /\ \E a, b \in SetOf(fnArgs[1]) :
            /\ a # b
            /\ \/ CountOf(fnArgs[1], a) > CountOf(fnArgs[1], b)
               \/ CountOf(fnArgs[1], a) = CountOf(fnArgs[1], b) /\ a = FirstSorted(fnArgs[1])
            /\ fnOut.products[1].formula = BinaryFormula(fnArgs[1], a, b)

\* hours since the latest set of a key
AgeSinceSet(key) == now - latest_set[key].t

\* C12: a set overwrites the key's entry with its payload stamped with the current
\* time and leaves the entries of other keys as they were, and a get issued before
\* the TTL has elapsed since the key's latest set returns the payload of that set.
C12_GetReturnsLatestSet ==
    [][/\ cacheCall'.op = "set" =>
            /\ DOMAIN cache_files' = DOMAIN cache_files \cup {cacheCall'.key}
            /\ cache_files'[cacheCall'.key] = CacheEntry(now, cacheCall'.data)
            /\ \A k \in DOMAIN cache_files \ {cacheCall'.key} :
                  cache_files'[k] = cache_files[k]
       /\ (/\ cacheCall'.op = "get"
           /\ cacheCall'.key \in DOMAIN latest_set
           /\ AgeSinceSet(cacheCall'.key) < ttl_hours) =>
            /\ cacheCall'.raised = "none"
            /\ cacheCall'.out = latest_set[cacheCall'.key].data]_vars

\* a get for [O,H], made after the clock passed the TTL, returned the payload of
\* the key's latest set (made at half the TTL), while the other key is stored too
C12_Witness ==
    /\ cacheCall.op = "get"
    /\ cacheCall.key = KeyOf(<<<<O, H>>, None>>)
    /\ cacheCall.out = "empty"
    /\ latest_set[cacheCall.key] = [t |-> ttl_hours \div 2, data |-> "empty"]
    /\ now > ttl_hours
    /\ KeyOf(<<<<H, O>>, "g1">>) \in DOMAIN cache_files

\* hours since the stored entry of a key was written
AgeOf(key) == now - cache_files[key].timestamp.t

\* C13: a get for an entry older than the TTL (24 h) returns None and removes that
\* entry alone, so the number of stored entries drops by one; a key without an
\* entry misses and gets an entry again only by a set of that key; a get for an
\* entry no older than the TTL returns its payload and leaves the directory,
\* the entry's timestamp included, as it was.
C13_ExpiryPurges ==
    [][/\ (/\ cacheCall'.op = "get"
           /\ cacheCall'.key \in DOMAIN cache_files
           /\ AgeOf(cacheCall'.key) > ttl_hours) =>
            /\ cacheCall'.out = None
            /\ cacheCall'.raised = "none"
            /\ cache_files' = Remove(cache_files, cacheCall'.key)
            /\ total_entries(cache_files') = total_entries(cache_files) - 1
       /\ (cacheCall'.op = "get" /\ cacheCall'.key \notin DOMAIN cache_files) =>
            /\ cacheCall'.out = None
            /\ cache_files' = cache_files
       /\ \A k \in DOMAIN cache_files' \ DOMAIN cache_files :
            cacheCall'.op = "set" /\ cacheCall'.key = k
       /\ (/\ cacheCall'.op = "get"
           /\ cacheCall'.key \in DOMAIN cache_files
           /\ AgeOf(cacheCall'.key) <= ttl_hours) =>
            /\ cacheCall'.out = cache_files[cacheCall'.key].data.value
            /\ cacheCall'.raised = "none"
            /\ cache_files' = cache_files]_vars

\* a get found an entry written more than the TTL ago and the entry is gone, the
\* other key's entry still stored
C13_Witness ==
    /\ cacheCall.op = "get"
    /\ cacheCall.branch = "expired"
    /\ cacheCall.out = None
    /\ cacheCall.key \notin DOMAIN cache_files
    /\ cacheCall.key \in DOMAIN latest_set
    /\ AgeSinceSet(cacheCall.key) > ttl_hours
    /\ total_entries(cache_files) = 1

\* C14: a get on a stored entry that is malformed (invalid JSON, JSON that is not
\* an object, no timestamp, no data, a timestamp that is not an ISO-8601 string)
\* returns None, deletes the entry and raises nothing.
C14_MalformedIsMiss ==
    [][(/\ cacheCall'.op = "get"
        /\ cacheCall'.key \in DOMAIN cache_files
        /\ ~WellFormed(cache_files[cacheCall'.key])) =>
            /\ cacheCall'.raised = "none"
            /\ cacheCall'.out = None
            /\ cacheCall'.key \notin DOMAIN cache_files']_vars

\* the access count of a stored entry, 0 for an entry never read
AccessCount(counts, key) == IF key \in DOMAIN counts THEN counts[key] ELSE 0

\* C15: a set on a smart cache that holds max_entries entries removes at least 20%
\* of the stored entries before it stores the new one, whatever was read before.
C15_EvictsFifth ==
    [][(cacheCall'.op = "smart_set" /\ total_entries(cache_files) = max_entries) =>
          5 * Cardinality(cacheCall'.evicted) >= total_entries(cache_files)]_vars

\* C16: every entry the smart cache evicts has an access count no higher than that
\* of every entry it keeps, an entry never read counting as 0.
C16_EvictsLeastUsed ==
    [][cacheCall'.op = "smart_set" =>
          \A e \in cacheCall'.evicted :
              \A k \in DOMAIN cache_files \ cacheCall'.evicted :
                  AccessCount(access_counts, e) <= AccessCount(access_counts, k)]_vars

\* a validate_prediction call has returned a report
Validated == lastValidation.op = "validate_prediction" /\ lastValidation.raised = "none"

ChecksPassed(report) ==
    Cardinality({i \in DOMAIN report.detailed_checks : report.detailed_checks[i].passed})

\* C17: the confidence of a report is checks_passed / checks_total plus the sum of
\* the signed adjustments, over six checks, clamped to [0,1] (in sixtieths: 0..60),
\* and the label is LIKELY_CORRECT from 0.8 (48), UNCERTAIN from 0.6 (36) and
\* LIKELY_INCORRECT below.
C17_ConfidenceAndLabel ==
    Validated =>
        LET report == lastValidation.validation
            raw == 10 * ChecksPassed(report) + SumSeq(report.adjustments)
        IN  /\ Len(report.detailed_checks) = 6
            /\ report.checks_passed = <<ChecksPassed(report), 6>>
            /\ report.confidence \in 0..60
            /\ raw \in 0..60 => report.confidence = raw
            /\ raw < 0 => report.confidence = 0
            /\ raw > 60 => report.confidence = 60
            /\ report.confidence >= 48 => report.result = "LIKELY_CORRECT"
            /\ (report.confidence >= 36 /\ report.confidence < 48) =>
                  report.result = "UNCERTAIN"
            /\ report.confidence < 36 => report.result = "LIKELY_INCORRECT"

\* the unit test's prediction: every check passes and the pattern H+H -> H2 matches,
\* so 6/6 + 0.10 is clamped to 1
C17_Witness ==
    /\ Validated
    /\ lastValidation.elements = <<H, H>>
    /\ lastValidation.predicted = <<[formula |-> F_H2, probability |-> Prob(1, 1)]>>
    /\ lastValidation.validation.adjustments = <<6>>
    /\ lastValidation.validation.checks_passed = <<6, 6>>
    /\ lastValidation.validation.confidence = 60
    /\ lastValidation.validation.result = "LIKELY_CORRECT"

\* Reference for the mass balance: the atoms of a formula written in the usual
\* notation, each element followed by its count when the count is above 1, and of
\* calcium hydroxide, written with a group.
RECURSIVE Render(_)
Render(atoms) ==
    IF atoms = <<>> THEN <<>>
    ELSE Head(atoms).elem
         \o (IF Head(atoms).count > 1 THEN Str(Head(atoms).count) ELSE <<>>)
         \o Render(Tail(atoms))

ValidatorAtoms == {H, O, C, Ca, Na, Cl}

\* compositions of up to two elements, up to four atoms each, with their formulas
FormulaTable ==
    {[formula |-> Render(atoms), atoms |-> atoms] :
        atoms \in ListsUpTo([elem : ValidatorAtoms, count : 1..4], 2)}
    \cup {[formula |-> F_CaOH2,
           atoms |-> <<[elem |-> Ca, count |-> 1], [elem |-> O, count |-> 2],
                       [elem |-> H, count |-> 2]>>]}

IsFormula(f) == \E row \in FormulaTable : row.formula = f

\* atoms of element e in formula f
AtomsIn(f, e) == SumOver((CHOOSE row \in FormulaTable : row.formula = f).atoms, e)

RECURSIVE AtomsInAll(_, _)
AtomsInAll(products, e) ==
    IF products = <<>> THEN 0
    ELSE AtomsIn(Head(products).formula, e) + AtomsInAll(Tail(products), e)

Balanced(elements, products) ==
    \A e \in ValidatorAtoms \cup SetOf(elements) :
        CountOf(elements, e) = AtomsInAll(products, e)

MassWarning == "Mass balance violated - atoms not conserved"

InSeq(x, s) == \E i \in DOMAIN s : s[i] = x

\* confidences of the reports on one product in which all six checks pass
AllPassConfidences ==
    {validate_prediction(e, p, q).validation.confidence :
        <<e, p, q>> \in {<<e, p, q>> \in ValidatorElements \X ListsUpTo(ProductDicts, 1)
                                             \X QuantumFeatures :
                            validate_prediction(e, p, q).validation.checks_passed = <<6, 6>>}}

\* every predicted product carries a formula whose atoms the reference knows (the
\* UNKNOWN sentinel of the fallback is not one)
PredictedFormulas ==
    \A i \in DOMAIN lastValidation.predicted :
        IsFormula(lastValidation.predicted[i].formula)

\* C18: the mass-balance check passes exactly when, element by element, the
\* reactants hold as many atoms as the product formulas together; when it fails
\* the report carries the mass-balance warning and the -0.30 adjustment, and its
\* confidence is strictly below that of every report in which all checks pass.
C18_MassBalance ==
    (Validated /\ PredictedFormulas) =>
        LET report == lastValidation.validation
            mass == report.detailed_checks[1]
        IN  /\ mass.name = "mass_balance"
            /\ mass.passed <=> Balanced(lastValidation.elements, lastValidation.predicted)
            /\ mass.passed => ~InSeq(MassWarning, report.warnings)
            /\ ~mass.passed =>
                  /\ InSeq(MassWarning, report.warnings)
                  /\ InSeq(-18, report.adjustments)
                  /\ \A c \in AllPassConfidences : report.confidence < c

\* the known pattern whose reactants the validated elements are, in some order
PatternOf(elements) ==
    {p \in KNOWN_PATTERNS : SameMultiset(p.elements, elements)}

PredictedHas(formula) ==
    \E i \in DOMAIN lastValidation.predicted : lastValidation.predicted[i].formula = formula

\* C19: for the reactants of each of the five known patterns, in any order, the
\* pattern check passes; it is marked matched and +0.10 is applied when the
\* expected product is among the predicted products, and it is not matched and
\* nothing is added when the expected product is absent.
C19_KnownPatterns ==
    Validated =>
        \A p \in PatternOf(lastValidation.elements) :
            LET report == lastValidation.validation
                pattern == report.detailed_checks[3]
            IN  /\ pattern.name = "pattern_matching"
                /\ pattern.passed
                /\ PredictedHas(p.expected) =>
                      pattern.matched /\ InSeq(6, report.adjustments)
                /\ ~PredictedHas(p.expected) =>
                      ~pattern.matched /\ ~InSeq(6, report.adjustments)

FailedChecks(report) ==
    {i \in DOMAIN report.detailed_checks : ~report.detailed_checks[i].passed}

\* C20: validate_prediction raises nothing, whatever products the router returned
\* (the bare strings of an unparsed service answer included) and whatever sections
\* the quantum features lack: it returns a report in which every failed check has
\* its warning and its negative adjustment.
C20_NeverRaises ==
    lastValidation.op = "validate_prediction" =>
        /\ lastValidation.raised = "none"
        /\ LET report == lastValidation.validation
           IN  /\ Cardinality({i \in DOMAIN report.adjustments : report.adjustments[i] < 0})
                     = Cardinality(FailedChecks(report))
               /\ Len(report.warnings) >= Cardinality(FailedChecks(report))
               /\ FailedChecks(report) = {} => report.warnings = <<>>

AllReturned == \A t \in Threads : pc[t] = "done"

\* C21: once all concurrent predict calls on one router have finished,
\* total_predictions equals the number of calls and equals the sum of the four
\* tier counters (no increment is lost).
C21_NoLostUpdate ==
    AllReturned =>
        /\ stats.total_predictions = NumThreads
        /\ TierHits(stats) = stats.total_predictions

\* C22: the cache operations run under one lock for their whole duration: a
\* set that skipped the eviction writes into a store still below the ceiling
\* (check, eviction and write are one atomic step), and the file a get found
\* is still there when the get reads it.
C22_OneLock ==
    \A t \in Threads :
        /\ (pc[t] = "set_write" /\ ~local[t].cleaned) =>
              total_entries(cache_files) < max_entries
        /\ pc[t] = "get_read" => local[t].key \in DOMAIN cache_files

\* the last call consulted the tier
Consulted(tier) == \E i \in DOMAIN lastCall.trace : lastCall.trace[i] = tier

\* C23: when Level 1 does not accept, the call returns the Level 2 result (speed
\* fast, the classifier's confidence) and counts a level2 hit iff a classifier
\* is loaded and reports a confidence strictly above 70; a confidence of 70 or
\* less, or no classifier, sends the call on to Level 3 with no level2 hit and
\* no exception.
C23_Level2Threshold ==
    (Called /\ lastCall.trace # <<"L1">>) =>
        LET loaded == ml_model # "absent"
            reported == loaded /\ ~lastCall.ml_result.raised
            confidence == lastCall.ml_result.confidence
            emitted == ~lastCall.raised /\ lastCall.result.method = "level2_ml"
            counted == stats.level2_hits = lastCall.before.level2_hits + 1
        IN  /\ emitted <=> (reported /\ confidence > 70)
            /\ counted <=> emitted
            /\ ~counted => stats.level2_hits = lastCall.before.level2_hits
            /\ emitted =>
                /\ lastCall.result.speed = "fast"
                /\ lastCall.result.confidence = confidence
                /\ lastCall.result.products = lastCall.ml_result.products
            /\ (~loaded \/ (reported /\ confidence <= 70)) =>
                /\ Consulted("L3")
                /\ ~lastCall.raised
                /\ ~counted

\* a loaded classifier reported exactly 70 and the call went on to Level 3
C23_Witness ==
    /\ Called
    /\ ml_model = "trained"
    /\ lastCall.ml_result.confidence = 70
    /\ Consulted("L2")
    /\ Consulted("L3")
    /\ stats.level2_hits = 0

\* C24: the client of the reasoning service does not exist before the first
\* call; a call that stops at Level 1 or 2 leaves it alone; a call that reaches
\* Level 3 with no client constructs one, and keeps it exactly when the
\* construction succeeded (so a failed construction is tried again by the next
\* such call); a call that reaches Level 3 with a client reuses it.
C24_LazyClient ==
    [][ /\ stats.total_predictions = 0 => ~gemini_predictor
        /\ lastCall' # lastCall =>
            /\ ~Consulted("L3")' =>
                 /\ lastCall'.client = "none"
                 /\ gemini_predictor' = gemini_predictor
            /\ (Consulted("L3")' /\ ~gemini_predictor) =>
                 /\ lastCall'.client \in {"constructed", "ctor_raised"}
                 /\ gemini_predictor' = (lastCall'.client = "constructed")
            /\ (Consulted("L3")' /\ gemini_predictor) =>
                 /\ lastCall'.client = "reused"
                 /\ gemini_predictor' ]_vars

\* the first call failed to construct the client and ended at Level 4, the
\* second call constructed it
C24_Witness ==
    /\ stats.total_predictions = 2
    /\ lastCall.before.level4_hits = 1
    /\ lastCall.client = "constructed"
    /\ gemini_predictor

\* C25: SmartCache.get adds exactly one to the counter of the requested key on
\* every hit, whatever the payload, and changes no counter (and creates none)
\* on a miss.
C25_CountsEveryHit ==
    [][ cacheCall'.op = "smart_get" =>
          IF cacheCall'.branch = "hit"
          THEN access_counts' = CountInc(access_counts, cacheCall'.key)
          ELSE access_counts' = access_counts ]_vars

\* C26: whatever gets and sets a single caller issues, the number of stored
\* entries never exceeds max_entries.
C26_CeilingHolds == total_entries(cache_files) <= max_entries

\* C29: every key that has an access counter also has a stored entry, whatever
\* was purged inside get because it had expired or was corrupt.
C29_CountedIsStored == DOMAIN access_counts \subseteq DOMAIN cache_files

\* position in the training history of the first reaction that recorded product p
\* for the reactants x (0 when there is none)
FirstAt(corpus, x, p) ==
    IF CorpusCount(corpus, x, p) = 0 THEN 0
    ELSE CHOOSE i \in DOMAIN corpus :
            /\ SameMultiset(corpus[i].reactants, x) /\ corpus[i].products[1] = p
            /\ \A j \in 1..(i - 1) :
                  ~(SameMultiset(corpus[j].reactants, x) /\ corpus[j].products[1] = p)

Sentinel == <<[product |-> UNKNOWN, confidence |-> <<0, 1>>]>>

\* the candidates are at most top_k, in non-increasing confidence order, equal
\* counts in the order of first insertion
Ranked(out, x, top_k) ==
    /\ Len(out) <= top_k
    /\ \A i, j \in DOMAIN out :
          i < j =>
            /\ out[i].confidence[1] * out[j].confidence[2]
                 >= out[j].confidence[1] * out[i].confidence[2]
            /\ CorpusCount(Flatten(trained), x, out[i].product)
                 >= CorpusCount(Flatten(trained), x, out[j].product)
            /\ CorpusCount(Flatten(trained), x, out[i].product)
                 = CorpusCount(Flatten(trained), x, out[j].product)
               => FirstAt(Flatten(trained), x, out[i].product)
                    < FirstAt(Flatten(trained), x, out[j].product)

\* C27: predict returns at most top_k candidates in non-increasing confidence
\* order, equal counts in the order of first insertion into the key's table; on
\* a miss it returns the one sentinel (UNKNOWN, 0) and predict_with_fallback says
\* no_match with 0 training examples; on a hit predict_with_fallback says
\* exact_match with the sum of all counts of the key.
C27_RankedCandidates ==
    LET x == lastPredict.reactants
        hit == CorpusTotal(Flatten(trained), x) > 0
    IN  /\ lastPredict.op = "predict" =>
            IF hit THEN Ranked(lastPredict.out, x, lastPredict.top_k)
            ELSE lastPredict.out = Sentinel
        /\ lastPredict.op = "predict_with_fallback" =>
            IF hit
            THEN /\ lastPredict.out.method = "exact_match"
                 /\ lastPredict.out.training_examples = CorpusTotal(Flatten(trained), x)
                 /\ Ranked(lastPredict.out.predictions, x, lastPredict.top_k)
            ELSE /\ lastPredict.out.method = "no_match"
                 /\ lastPredict.out.training_examples = 0
                 /\ lastPredict.out.predictions = Sentinel

\* two candidates of equal count were returned, the one inserted first in front
C27_Witness ==
    /\ lastPredict.op = "predict"
    /\ lastPredict.top_k = 2
    /\ Len(lastPredict.out) = 2
    /\ lastPredict.out[1].confidence = lastPredict.out[2].confidence
    /\ lastPredict.out[1].product = F_OH

\* the sum of all counts over the frequency tables of the keys K
RECURSIVE SumCounts(_, _)
SumCounts(d, K) ==
    IF K = {} THEN 0
    ELSE LET k == CHOOSE k \in K : TRUE
         IN  CounterTotal(d[k]) + SumCounts(d, K \ {k})

\* C30: after any sequence of train calls unique_reactant_combos is the number
\* of keys of the index and total_reactions is the sum of all counts of all
\* frequency tables; predict and predict_with_fallback change neither counter
\* nor any table.
C30_SummaryCounters ==
    [][ /\ unique_reactant_combos' = Cardinality(DOMAIN reaction_dict')
        /\ total_reactions' = SumCounts(reaction_dict', DOMAIN reaction_dict')
        /\ lastPredict'.op \in {"predict", "predict_with_fallback"} =>
              UNCHANGED <<reaction_dict, total_reactions, unique_reactant_combos>> ]_vars

\* a step of validate_prediction leaves the three arguments as they were and, when
\* it returns, appends one record of the call to the history; no other step
\* touches the history
HistoryStep ==
    /\ (lastValidation.op = "call" /\ lastValidation'.op = "validate_prediction") =>
          /\ lastValidation'.elements = lastValidation.elements
          /\ lastValidation'.predicted = lastValidation.predicted
          /\ lastValidation'.quantum_features = lastValidation.quantum_features
          /\ IF lastValidation'.raised = "none"
             THEN validation_history' =
                     Append(validation_history,
                            [elements |-> lastValidation.elements,
                             predicted |-> lastValidation.predicted,
                             validation |-> lastValidation'.validation])
             ELSE validation_history' = validation_history
    /\ ~(lastValidation.op = "call" /\ lastValidation'.op = "validate_prediction") =>
          validation_history' = validation_history

StatsStep == fn' = "get_validation_stats" /\ UNCHANGED validatorVars

StatsAddUp(st) ==
    /\ {"correct_count", "uncertain_count", "incorrect_count"} \subseteq DOMAIN st
    /\ st.correct_count + st.uncertain_count + st.incorrect_count = st.total_validations

\* C28: validate_prediction never modifies its three arguments, each completed
\* call appends exactly one record to validation_history and leaves the earlier
\* records as they are, and get_validation_stats always reports correct_count +
\* uncertain_count + incorrect_count = total_validations = the history length.
C28_HistoryAndStats ==
    [][ /\ HistoryStep
        /\ StatsStep =>
              /\ fnOut'[1].total_validations = Len(validation_history)
              /\ StatsAddUp(fnOut'[1]) ]_vars

\* C28 as the code has it: the three counts are reported once a validation has
\* completed; for an empty history the report is the total 0 alone.
C28_HistoryAndStatsOnceValidated ==
    [][ /\ HistoryStep
        /\ StatsStep =>
              /\ fnOut'[1].total_validations = Len(validation_history)
              /\ IF validation_history = <<>>
                 THEN DOMAIN fnOut'[1] = {"total_validations"}
                 ELSE StatsAddUp(fnOut'[1]) ]_vars

\* three validations completed, one of each label, and the statistics were read
C28_Witness ==
    /\ fn = "get_validation_stats"
    /\ Len(validation_history) = 3
    /\ fnOut[1].total_validations = 3
    /\ fnOut[1].correct_count = 1
    /\ fnOut[1].uncertain_count = 1
    /\ fnOut[1].incorrect_count = 1

====
